---- MODULE Spec2Model ----
(***************************************************************************)
(* Model of the 4x4 transform math library (vmlib/mat44.hpp) and of the    *)
(* way its unit tests drive it: build one or two matrices, then multiply   *)
(* them, apply one to a vector, or transpose it.                           *)
(*                                                                         *)
(* A float is modelled by an integer.  Every input is a small integer, so  *)
(* every product and every partial sum the code forms is an integer far    *)
(* below 2^24 and is represented exactly by a float: on these inputs the   *)
(* float computation and the integer computation agree step for step.      *)
(* Non-finite values and rounding are outside the model, as they are       *)
(* outside the library's stated domain (finite input).                     *)
(*                                                                         *)
(* A Mat44f is a function from the indices of v[16] to values.  An element *)
(* of a local `Mat44f ret;` that has not been written yet is absent from   *)
(* the function's domain.  A loop is the function of the elements it       *)
(* writes, a later write replacing an earlier one to the same element.     *)
(***************************************************************************)
EXTENDS Integers, Sequences, FiniteSets, TLC

\* Largest magnitude of an enumerated input value.
MaxVal == 1

\* Number of dense (all sixteen entries set) matrices among the inputs.
NumDense == 3

Vals == (-MaxVal)..MaxVal

Idx == 0..15

Dim == 0..3

---------------------------------------------------------------------------
(* Values of the library's types.                                          *)

Vec3f(px, py, pz) == [x |-> px, y |-> py, z |-> pz]

Vec4f(px, py, pz, pw) == [x |-> px, y |-> py, z |-> pz, w |-> pw]

\* Mat44f{ { e0, ..., e15 } }: aggregate initialisation from sixteen values,
\* row after row.
Mat44f(elems) == [q \in Idx |-> elems[q + 1]]

\* `Mat44f ret;`: no element has a value yet.
Uninitialized == [q \in {} |-> 0]

\* ret.v[idx] = val; as the only element written.
Write(idx, val) == idx :> val

\* kIdentity44f with the last diagonal element mistyped.
kIdentity44f_typo ==
    Mat44f(<< 1, 0, 0, 0,
              0, 1, 0, 0,
              0, 0, 1, 0,
              0, 0, 0, 0 >>)

kIdentity44f ==
    Mat44f(<< 1, 0, 0, 0,
              0, 1, 0, 0,
              0, 0, 1, 0,
              0, 0, 0, 1 >>)

---------------------------------------------------------------------------
(* operator*(Mat44f, Mat44f): the three nested loops.                      *)

\* The inner loop reading the right operand as if it were stored column by
\* column.
RECURSIVE MultiplyK_colmajor(_, _, _, _, _, _)
MultiplyK_colmajor(aLeft, aRight, i, j, k, acc) ==
    IF k < 4
    THEN MultiplyK_colmajor(aLeft, aRight, i, j, k + 1,
                            acc + aLeft[i * 4 + k] * aRight[j * 4 + k])
    ELSE acc

\* The inner loop stopping one term early.
RECURSIVE MultiplyK_short(_, _, _, _, _, _)
MultiplyK_short(aLeft, aRight, i, j, k, acc) ==
    IF k < 3
    THEN MultiplyK_short(aLeft, aRight, i, j, k + 1,
                         acc + aLeft[i * 4 + k] * aRight[k * 4 + j])
    ELSE acc

\* The loop over k; acc is the value of ret.v[i * 4 + j], which the loop
\* adds to once per k.
RECURSIVE MultiplyK(_, _, _, _, _, _)
MultiplyK(aLeft, aRight, i, j, k, acc) ==
    IF k < 4
    THEN MultiplyK(aLeft, aRight, i, j, k + 1,
                   acc + aLeft[i * 4 + k] * aRight[k * 4 + j])
    ELSE acc

\* The loop over j leaving the last column unwritten.
RECURSIVE MultiplyJ_lastcol(_, _, _, _)
MultiplyJ_lastcol(aLeft, aRight, i, j) ==
    IF j < 3
    THEN MultiplyJ_lastcol(aLeft, aRight, i, j + 1)
             @@ Write(i * 4 + j, MultiplyK(aLeft, aRight, i, j, 0, 0))
    ELSE Uninitialized

\* The loop over j, from iteration j on: the elements it writes.  Element
\* i * 4 + j is set to 0 and then accumulated; what a later iteration writes
\* replaces what an earlier one wrote.
RECURSIVE MultiplyJ(_, _, _, _)
MultiplyJ(aLeft, aRight, i, j) ==
    IF j < 4
    THEN MultiplyJ(aLeft, aRight, i, j + 1)
             @@ Write(i * 4 + j, MultiplyK(aLeft, aRight, i, j, 0, 0))
    ELSE Uninitialized

\* The loop over i, from iteration i on.
RECURSIVE MultiplyI(_, _, _)
MultiplyI(aLeft, aRight, i) ==
    IF i < 4
    THEN MultiplyI(aLeft, aRight, i + 1) @@ MultiplyJ(aLeft, aRight, i, 0)
    ELSE Uninitialized

multiply(aLeft, aRight) == MultiplyI(aLeft, aRight, 0)

---------------------------------------------------------------------------
(* operator*(Mat44f, Vec4f).                                               *)

\* The product reading the matrix column by column.
apply_colmajor(aLeft, aRight) ==
    Vec4f(aLeft[0] * aRight.x + aLeft[4] * aRight.y + aLeft[8] * aRight.z + aLeft[12] * aRight.w,
          aLeft[1] * aRight.x + aLeft[5] * aRight.y + aLeft[9] * aRight.z + aLeft[13] * aRight.w,
          aLeft[2] * aRight.x + aLeft[6] * aRight.y + aLeft[10] * aRight.z + aLeft[14] * aRight.w,
          aLeft[3] * aRight.x + aLeft[7] * aRight.y + aLeft[11] * aRight.z + aLeft[15] * aRight.w)

\* The product with one index of the third row mistyped (9 for 10).
apply_typo(aLeft, aRight) ==
    Vec4f(aLeft[0] * aRight.x + aLeft[1] * aRight.y + aLeft[2] * aRight.z + aLeft[3] * aRight.w,
          aLeft[4] * aRight.x + aLeft[5] * aRight.y + aLeft[6] * aRight.z + aLeft[7] * aRight.w,
          aLeft[8] * aRight.x + aLeft[9] * aRight.y + aLeft[9] * aRight.z + aLeft[11] * aRight.w,
          aLeft[12] * aRight.x + aLeft[13] * aRight.y + aLeft[14] * aRight.z + aLeft[15] * aRight.w)

apply(aLeft, aRight) ==
    Vec4f(aLeft[0] * aRight.x + aLeft[1] * aRight.y + aLeft[2] * aRight.z + aLeft[3] * aRight.w,
          aLeft[4] * aRight.x + aLeft[5] * aRight.y + aLeft[6] * aRight.z + aLeft[7] * aRight.w,
          aLeft[8] * aRight.x + aLeft[9] * aRight.y + aLeft[10] * aRight.z + aLeft[11] * aRight.w,
          aLeft[12] * aRight.x + aLeft[13] * aRight.y + aLeft[14] * aRight.z + aLeft[15] * aRight.w)

---------------------------------------------------------------------------
(* transpose: the two nested loops, written as the loops of operator*.     *)

\* The inner loop copying each element to its own place.
RECURSIVE TransposeJ_copy(_, _, _)
TransposeJ_copy(aM, i, j) ==
    IF j < 4
    THEN TransposeJ_copy(aM, i, j + 1) @@ Write(i * 4 + j, aM[i * 4 + j])
    ELSE Uninitialized

RECURSIVE TransposeJ(_, _, _)
TransposeJ(aM, i, j) ==
    IF j < 4
    THEN TransposeJ(aM, i, j + 1) @@ Write(j * 4 + i, aM[i * 4 + j])
    ELSE Uninitialized

RECURSIVE TransposeI(_, _)
TransposeI(aM, i) ==
    IF i < 4
    THEN TransposeI(aM, i + 1) @@ TransposeJ(aM, i, 0)
    ELSE Uninitialized

\* The transposition done in place on the argument: an element below the
\* diagonal is read after the element above it was copied over it, so the
\* result holds the upper triangle on both sides.
transpose_inplace(aM) ==
    [q \in Idx |->
        IF q \div 4 <= q % 4 THEN aM[q] ELSE aM[(q % 4) * 4 + q \div 4]]

transpose(aM) == TransposeI(aM, 0)

---------------------------------------------------------------------------
(* Constructors.                                                           *)

\* The offset written to the last row instead of the last column.
make_translation_lastrow(aTranslation) ==
    Mat44f(<< 1, 0, 0, 0,
              0, 1, 0, 0,
              0, 0, 1, 0,
              aTranslation.x, aTranslation.y, aTranslation.z, 1 >>)

\* The offset's y and z exchanged.
make_translation_swapped(aTranslation) ==
    Mat44f(<< 1, 0, 0, aTranslation.x,
              0, 1, 0, aTranslation.z,
              0, 0, 1, aTranslation.y,
              0, 0, 0, 1 >>)

make_translation(aTranslation) ==
    Mat44f(<< 1, 0, 0, aTranslation.x,
              0, 1, 0, aTranslation.y,
              0, 0, 1, aTranslation.z,
              0, 0, 0, 1 >>)

\* The third factor left out.
make_scaling_xy(aSX, aSY, aSZ) ==
    Mat44f(<< aSX, 0, 0, 0,
              0, aSY, 0, 0,
              0, 0, 1, 0,
              0, 0, 0, 1 >>)

\* The first two factors exchanged.
make_scaling_swapped(aSX, aSY, aSZ) ==
    Mat44f(<< aSY, 0, 0, 0,
              0, aSX, 0, 0,
              0, 0, aSZ, 0,
              0, 0, 0, 1 >>)

\* The last diagonal element scaled as well.
make_scaling_w(aSX, aSY, aSZ) ==
    Mat44f(<< aSX, 0, 0, 0,
              0, aSY, 0, 0,
              0, 0, aSZ, 0,
              0, 0, 0, aSZ >>)

make_scaling(aSX, aSY, aSZ) ==
    Mat44f(<< aSX, 0, 0, 0,
              0, aSY, 0, 0,
              0, 0, aSZ, 0,
              0, 0, 0, 1 >>)

---------------------------------------------------------------------------
(* Rotations.  An angle is a number of quarter turns (0, pi/2, pi, 3pi/2), *)
(* the angles whose cosine and sine are integers; std::cos and std::sin    *)
(* are their tables, exact at 0 and within the tests' tolerance (1e-6) of  *)
(* the float results elsewhere.                                            *)

Angles == 0..3

cos(aAngle) == CASE aAngle = 0 -> 1 [] aAngle = 1 -> 0 [] aAngle = 2 -> -1 [] aAngle = 3 -> 0

sin(aAngle) == CASE aAngle = 0 -> 0 [] aAngle = 1 -> 1 [] aAngle = 2 -> 0 [] aAngle = 3 -> -1

\* The rotation about X written in the plane of the rotation about Z.
make_rotation_x_asz(aAngle) ==
    LET c == cos(aAngle)
        s == sin(aAngle)
    IN  Mat44f(<< c, -s, 0, 0,
                  s, c, 0, 0,
                  0, 0, 1, 0,
                  0, 0, 0, 1 >>)

make_rotation_x(aAngle) ==
    LET c == cos(aAngle)
        s == sin(aAngle)
    IN  Mat44f(<< 1, 0, 0, 0,
                  0, c, -s, 0,
                  0, s, c, 0,
                  0, 0, 0, 1 >>)

\* The rotation about Y with the sign of the sine on the wrong side.
make_rotation_y_transposed(aAngle) ==
    LET c == cos(aAngle)
        s == sin(aAngle)
    IN  Mat44f(<< c, 0, -s, 0,
                  0, 1, 0, 0,
                  s, 0, c, 0,
                  0, 0, 0, 1 >>)

make_rotation_y(aAngle) ==
    LET c == cos(aAngle)
        s == sin(aAngle)
    IN  Mat44f(<< c, 0, s, 0,
                  0, 1, 0, 0,
                  -s, 0, c, 0,
                  0, 0, 0, 1 >>)

\* The rotation about Z with cosine and sine exchanged.
make_rotation_z_exchanged(aAngle) ==
    LET c == sin(aAngle)
        s == cos(aAngle)
    IN  Mat44f(<< c, -s, 0, 0,
                  s, c, 0, 0,
                  0, 0, 1, 0,
                  0, 0, 0, 1 >>)

make_rotation_z(aAngle) ==
    LET c == cos(aAngle)
        s == sin(aAngle)
    IN  Mat44f(<< c, -s, 0, 0,
                  s, c, 0, 0,
                  0, 0, 1, 0,
                  0, 0, 0, 1 >>)

---------------------------------------------------------------------------
(* The perspective projection divides, so its floats are modelled by       *)
(* rationals in lowest terms: the arithmetic is exact, the rounding of     *)
(* each float operation is not modelled.                                   *)

Abs(n) == IF n < 0 THEN -n ELSE n

RECURSIVE Gcd(_, _)
Gcd(m, n) == IF n = 0 THEN m ELSE Gcd(n, m % n)

\* The rational n / d (d # 0) in lowest terms with a positive denominator.
Rat(n, d) ==
    LET g == Gcd(Abs(n), Abs(d))
        sgn == IF d < 0 THEN -1 ELSE 1
    IN  [num |-> (sgn * n) \div g, den |-> (sgn * d) \div g]

QAdd(p, q) == Rat(p.num * q.den + q.num * p.den, p.den * q.den)

QSub(p, q) == Rat(p.num * q.den - q.num * p.den, p.den * q.den)

QMul(p, q) == Rat(p.num * q.num, p.den * q.den)

QDiv(p, q) == Rat(p.num * q.den, p.den * q.num)

QNeg(p) == [num |-> -p.num, den |-> p.den]

\* A float literal with an integer value: 0.f, 1.f, 2.f, -1.f.
Lit(n) == [num |-> n, den |-> 1]

\* A field of view is given by the tangent of its half, a rational:
\* std::tan(aFovInRadians / 2.f) is that number.
tan_half(aFovInRadians) == aFovInRadians

\* The projection with the depth range the wrong way round: 1 / (far - near).
make_perspective_projection_flipped(aFovInRadians, aAspect, aNear, aFar) ==
    LET f == QDiv(Lit(1), tan_half(aFovInRadians))
        nf == QDiv(Lit(1), QSub(aFar, aNear))
    IN  Mat44f(<< QDiv(f, aAspect), Lit(0), Lit(0), Lit(0),
                  Lit(0), f, Lit(0), Lit(0),
                  Lit(0), Lit(0), QMul(QAdd(aFar, aNear), nf),
                                  QMul(QMul(QMul(Lit(2), aFar), aNear), nf),
                  Lit(0), Lit(0), Lit(-1), Lit(0) >>)

make_perspective_projection(aFovInRadians, aAspect, aNear, aFar) ==
    LET f == QDiv(Lit(1), tan_half(aFovInRadians))
        nf == QDiv(Lit(1), QSub(aNear, aFar))
    IN  Mat44f(<< QDiv(f, aAspect), Lit(0), Lit(0), Lit(0),
                  Lit(0), f, Lit(0), Lit(0),
                  Lit(0), Lit(0), QMul(QAdd(aFar, aNear), nf),
                                  QMul(QMul(QMul(Lit(2), aFar), aNear), nf),
                  Lit(0), Lit(0), Lit(-1), Lit(0) >>)

\* operator*(Mat44f, Vec4f) on rational elements.
QDot(m, row, aRight) ==
    QAdd(QAdd(QAdd(QMul(m[row * 4], aRight.x), QMul(m[row * 4 + 1], aRight.y)),
              QMul(m[row * 4 + 2], aRight.z)),
         QMul(m[row * 4 + 3], aRight.w))

apply_rational(aLeft, aRight) ==
    Vec4f(QDot(aLeft, 0, aRight), QDot(aLeft, 1, aRight),
          QDot(aLeft, 2, aRight), QDot(aLeft, 3, aRight))

---------------------------------------------------------------------------
(* Mat44f::operator[] (aI, aJ): assert(aI < 4 && aJ < 4), then the element *)
(* v[aI * 4 + aJ].  The indices are std::size_t, never negative.           *)

\* The element accessor: the build (NDEBUG defined or not) and the last
\* access made.
VARIABLES ndebug, access

accessVars == << ndebug, access >>

\* Largest index an access is made with.
MaxIndex == 5

AccessRange == 0..MaxIndex

\* The argument of the assert.
Precondition(aI, aJ) == aI < 4 /\ aJ < 4

\* The element counted column by column.
ElementIndex_colmajor(aI, aJ) == aI + aJ * 4

ElementIndex(aI, aJ) == aI * 4 + aJ

\* What an access with (aI, aJ) can do.  Without NDEBUG a failed assert
\* aborts the program.  With NDEBUG the assert expands to nothing and the
\* element ElementIndex(aI, aJ) is referred to; outside the sixteen
\* elements that is undefined: the program may crash or go on with a
\* reference to memory that is not part of the matrix.
Subscript(aI, aJ) ==
    IF ~ndebug /\ ~Precondition(aI, aJ)
    THEN { [outcome |-> "aborted", elem |-> 0] }
    ELSE IF ElementIndex(aI, aJ) \in Idx
         THEN { [outcome |-> "returned", elem |-> ElementIndex(aI, aJ)] }
         ELSE { [outcome |-> "crashed", elem |-> 0],
                [outcome |-> "returned", elem |-> ElementIndex(aI, aJ)] }

---------------------------------------------------------------------------
(* invert: declared by the library, its definition is not part of the      *)
(* sources; modelled as the general inverse the library documents, the     *)
(* adjugate divided by the determinant.                                    *)

\* The n-th row or column that is left when row or column r is deleted.
Skip(r, n) == IF n < r THEN n ELSE n + 1

\* The determinant of the 3x3 matrix left when row r and column c of aM
\* are deleted.
Minor(aM, r, c) ==
    LET E(i, j) == aM[Skip(r, i) * 4 + Skip(c, j)]
    IN  E(0, 0) * (E(1, 1) * E(2, 2) - E(1, 2) * E(2, 1))
            - E(0, 1) * (E(1, 0) * E(2, 2) - E(1, 2) * E(2, 0))
            + E(0, 2) * (E(1, 0) * E(2, 1) - E(1, 1) * E(2, 0))

Cofactor(aM, r, c) == (IF (r + c) % 2 = 0 THEN 1 ELSE -1) * Minor(aM, r, c)

\* The determinant, expanded along the first row.
Determinant(aM) ==
    aM[0] * Cofactor(aM, 0, 0) + aM[1] * Cofactor(aM, 0, 1)
        + aM[2] * Cofactor(aM, 0, 2) + aM[3] * Cofactor(aM, 0, 3)

\* The inverse of aM has only whole-numbered elements: aM is non-singular
\* and its determinant divides every cofactor.
HasIntegerInverse(aM) ==
    /\ Determinant(aM) # 0
    /\ \A r \in Dim, c \in Dim : Cofactor(aM, r, c) % Abs(Determinant(aM)) = 0

invert(aM) ==
    LET det == Determinant(aM)
        sgn == IF det < 0 THEN -1 ELSE 1
    IN  [q \in Idx |-> (sgn * Cofactor(aM, q % 4, q \div 4)) \div Abs(det)]

---------------------------------------------------------------------------
(* Inputs.                                                                 *)

\* The vectors and scale factors the unit tests use.
TestVec3s ==
    { Vec3f(1, 2, 3), Vec3f(4, 5, 6), Vec3f(2, 3, 4), Vec3f(5, 10, 15),
      Vec3f(2, 2, 2), Vec3f(3, 3, 3) }

TestVec4s == { Vec4f(1, 1, 1, 1), Vec4f(1, 2, 3, 4), Vec4f(2, 2, 2, 1) }

Vec3Inputs == { Vec3f(px, py, pz) : px \in Vals, py \in Vals, pz \in Vals } \cup TestVec3s

Vec4Inputs ==
    { Vec4f(px, py, pz, pw) : px \in Vals, py \in Vals, pz \in Vals, pw \in Vals }
        \cup TestVec4s

\* A matrix with one non-zero element.
Unit(p, val) == [q \in Idx |-> IF q = p THEN val ELSE 0]

\* A matrix with all sixteen elements set, no two rows or columns alike.
Dense(n) == [q \in Idx |-> ((q * q * n + 3 * q + n) % 7) - 3]

\* A matrix of determinant 1 that no constructor of the library returns.
Unimodular ==
    Mat44f(<< 1, 1, 0, 0,
              1, 2, 1, 0,
              0, 1, 2, 1,
              0, 0, 1, 2 >>)

MatInputs ==
    {kIdentity44f, Unimodular}
        \cup { Unit(p, val) : p \in Idx, val \in Vals \ {0} }
        \cup { Dense(n) : n \in 1..NumDense }

\* Arguments of make_perspective_projection with 0 < near < far: the
\* half-angle tangents 1/2, 1, 2 (fields of view of about 53, 90 and 127
\* degrees), aspect ratios, near planes (0.1 among them) and far planes.
FovInputs == { Rat(1, 2), Rat(1, 1), Rat(2, 1) }

AspectInputs == { Rat(1, 1), Rat(4, 3), Rat(16, 9), Rat(1, 2) }

NearInputs == { Rat(n, 10) : n \in 1..(MaxVal + 1) } \cup { Rat(n, 1) : n \in 1..(MaxVal + 1) }

FarInputs == { Rat(n, 1) : n \in 2..(MaxVal + 3) } \cup { Rat(100, 1) }

\* near < far, both rationals.
QLess(p, q) == p.num * q.den < q.num * p.den

PerspectiveInputs ==
    { args \in [fov : FovInputs, aspect : AspectInputs, near : NearInputs, far : FarInputs] :
        QLess(args.near, args.far) }

---------------------------------------------------------------------------
(* The state: two matrix operands a and b with the call that produced each *)
(* (aArgs, bArgs), a vector operand v, the last matrix result ret and the  *)
(* last vector result retv, and the position pc in the test.               *)

VARIABLES pc, a, b, v, ret, retv, aArgs, bArgs

\* A third matrix operand, and the products that are compared with each
\* other: (a * b) * c, a * (b * c), a * b and b * a.
VARIABLES c, prods

assocVars == << c, prods >>

\* The renderer's frame loop: what was loaded before the loop (scene), the
\* camera, the projection and view matrices of the frame, the number of
\* frames drawn, the calls of the library's functions made in the frame
\* for each object, and the matrices handed to glUniformMatrix4fv in the
\* frame.
VARIABLES scene, camera, proj, view, frames, calls, handed

renderVars == << scene, camera, proj, view, frames, calls, handed >>


\* The program from the start of main to its return: the GL objects it
\* generated a name for (handles), the number of LaunchpadMesh entries it
\* pushed, the glDelete* calls made for each object (deletes), whether
\* glfwInit and glfwCreateWindow succeeded (glfw), the cleanup objects
\* constructed so far, in the order of their construction (helpers), and
\* the glfwDestroyWindow and glfwTerminate calls made (glfwCalls).
VARIABLES handles, meshCount, deletes, glfw, helpers, glfwCalls

mainVars == << handles, meshCount, deletes, glfw, helpers, glfwCalls >>

\* Largest number of materials of the launchpad model.
MaxMeshes == 2

\* The GL objects the program can create.
Buffers(part, n) == { [part |-> part, n |-> n, kind |-> k] : k \in {"vao", "vbo", "ebo"} }

Texture == [part |-> "terrain", n |-> 0, kind |-> "texture"]

LaunchpadBuffers(count) == UNION { Buffers("launchpad", n) : n \in 1..count }

GlObjects ==
    Buffers("terrain", 0) \cup {Texture} \cup LaunchpadBuffers(MaxMeshes)
        \cup Buffers("vehicle", 0)

\* main was not entered.
MainIdle ==
    /\ handles = [o \in GlObjects |-> FALSE]
    /\ meshCount = 0
    /\ deletes = [o \in GlObjects |-> 0]
    /\ glfw = [init |-> FALSE, window |-> FALSE]
    /\ helpers = << >>
    /\ glfwCalls = << >>

---------------------------------------------------------------------------
(* The input callbacks of main.cpp and the loop that delivers their events. *)
(* input is InputState, look the camera's yaw and pitch, window the GLFW    *)
(* window's close flag and cursor mode.  recent[k] is the latest press or   *)
(* release delivered for the key with index k, indexed the subscript the    *)
(* latest key callback used on keys, loop the position of main in its loop. *)
(* Angles are counted in units of 1/10000 radian, cursor positions in       *)
(* pixels.                                                                  *)

VARIABLES input, look, window, recent, indexed, loop

inputVars == << input, look, window, recent, indexed, loop >>

MaxTurn == 1

GLFW_RELEASE == 0
GLFW_PRESS == 1
GLFW_REPEAT == 2
GLFW_KEY_UNKNOWN == -1
GLFW_KEY_W == 87
GLFW_KEY_ESCAPE == 256
GLFW_MOUSE_BUTTON_LEFT == 0
GLFW_MOUSE_BUTTON_RIGHT == 1

KeysSize == 512
kPi == 31416
mouseSensitivity == 20

Angle(tenths) == tenths * 1000

maxPitch == kPi \div 2 - Angle(1)

KeyCodes == { GLFW_KEY_UNKNOWN, GLFW_KEY_W, GLFW_KEY_ESCAPE }

KeyIndices == { k \in KeyCodes : 0 <= k /\ k < KeysSize }

KeyActions == { GLFW_RELEASE, GLFW_PRESS, GLFW_REPEAT }

MouseButtons == { GLFW_MOUSE_BUTTON_LEFT, GLFW_MOUSE_BUTTON_RIGHT }

CursorPositions == { << 0, 0 >>, << 500, 1000 >> }

InitialInput ==
    [ keys |-> [k \in KeyIndices |-> FALSE], mouseActive |-> FALSE,
      lastMouseX |-> 0, lastMouseY |-> 0, firstMouse |-> TRUE ]

InitialLook == [yaw |-> 0, pitch |-> Angle(-3)]

InitialWindow == [shouldClose |-> FALSE, cursor |-> "GLFW_CURSOR_NORMAL"]

InputIdle ==
    /\ input = InitialInput
    /\ look = InitialLook
    /\ window = InitialWindow
    /\ recent = [k \in KeyIndices |-> << >>]
    /\ indexed = << >>
    /\ loop = "condition"

---------------------------------------------------------------------------
(* One pass through the body of main's loop, as far as the framebuffer     *)
(* size and the shader's two switches go.  assets is what loading left in  *)
(* AppState, fbsize the four locals of the size query, aspectArgs the      *)
(* operands of the division handed on as aspect, uniforms the              *)
(* program's uUseTexture and uUseMaterialColor, drawn the glDrawElements   *)
(* calls of the pass with the switches each was issued under.              *)

VARIABLES assets, fbsize, aspectArgs, uniforms, drawn, step, passes

frameVars == << assets, fbsize, aspectArgs, uniforms, drawn, step, passes >>

\* What loading can leave: no texture, a texture, or hasTexture set with
\* the name glGenTextures left at 0.
AssetSets ==
    { [hasTexture |-> t[1], texture |-> t[2], meshes |-> m, vehicle |-> veh] :
          t \in { << FALSE, 0 >>, << TRUE, 1 >>, << TRUE, 0 >> },
          m \in 0..MaxMeshes, veh \in BOOLEAN }

\* The sizes glfwGetFramebufferSize reports; 0 while the window is minimized.
FramebufferSizes == { 0, 1, 2 }

NoSize == [nwidth |-> 0, nheight |-> 0, fbwidth |-> 0, fbheight |-> 0]

\* A linked program's uniforms start at 0.
InitialUniforms == [uUseTexture |-> 0, uUseMaterialColor |-> 0]

FrameIdle ==
    /\ assets = [hasTexture |-> FALSE, texture |-> 0, meshes |-> 0, vehicle |-> FALSE]
    /\ fbsize = NoSize
    /\ aspectArgs = << >>
    /\ uniforms = InitialUniforms
    /\ drawn = << >>
    /\ step = "events"
    /\ passes = 0

---------------------------------------------------------------------------
(* The procedural vehicle mesh.  vehicleVertices holds one entry for every *)
(* float pushed, the number of the shape that pushed it; vehicleIndices    *)
(* one record for every index pushed: the index, the shape that pushed it, *)
(* and vertices.size() / 8 at the moment of the push.  shapes counts the   *)
(* create calls made.                                                      *)

VARIABLES vehicleVertices, vehicleIndices, shapes

meshVars == << vehicleVertices, vehicleIndices, shapes >>

MaxShapes == 3
MaxSegments == 2

MeshIdle ==
    /\ vehicleVertices = << >>
    /\ vehicleIndices = << >>
    /\ shapes = 0

vars ==
    << pc, a, b, v, ret, retv, aArgs, bArgs, accessVars, assocVars,
       renderVars, mainVars, inputVars, frameVars, meshVars >>

\* The variables of the tests of the library's functions.
libraryVars == << a, b, v, ret, retv, aArgs, bArgs >>

\* What the tests of the library's functions leave alone.
outsideLibrary ==
    << accessVars, assocVars, renderVars, mainVars, inputVars, frameVars,
       meshVars >>

\* What an element access leaves alone, the matrix a apart.
outsideAccess ==
    << b, v, ret, retv, aArgs, bArgs, assocVars, renderVars, mainVars,
       inputVars, frameVars, meshVars >>

\* What the frame loop leaves alone.
outsideRender ==
    << libraryVars, accessVars, assocVars, mainVars, inputVars, frameVars,
       meshVars >>

\* What main leaves alone outside the frames it draws.
outsideMain ==
    << libraryVars, accessVars, assocVars, renderVars, inputVars,
       frameVars, meshVars >>

\* What the input callbacks and the loop delivering their events leave alone.
outsideInput ==
    << pc, libraryVars, accessVars, assocVars, renderVars, mainVars,
       frameVars, meshVars >>

\* What a pass through the loop's body leaves alone.
outsideFrame ==
    << libraryVars, accessVars, assocVars, renderVars, mainVars, inputVars,
       meshVars >>

\* What building the vehicle mesh leaves alone.
outsideMesh ==
    << libraryVars, accessVars, assocVars, renderVars, mainVars, inputVars,
       frameVars >>

\* What a comparison of two products leaves alone.
outsideAssoc ==
    << pc, a, b, c, aArgs, bArgs, ret, v, retv, accessVars, renderVars,
       mainVars, inputVars, frameVars, meshVars >>

\* None of the products was taken yet.
NoProducts ==
    [left |-> Uninitialized, right |-> Uninitialized,
     ab |-> Uninitialized, ba |-> Uninitialized]

\* No product is being compared.
AssocIdle ==
    /\ c = kIdentity44f
    /\ prods = NoProducts

\* No vector is in use.
VectorIdle ==
    /\ v = Vec4f(0, 0, 0, 0)
    /\ retv = Vec4f(0, 0, 0, 0)

\* The objects the frame loop draws, in the order it draws them.
Objects == {"terrain", "launchpad1", "launchpad2", "vehicle"}

\* No call of a function of the library.
NoCalls == [perspective |-> 0, translation |-> 0, multiply |-> 0, transpose |-> 0]

\* struct Camera, as constructed; the pitch is kept level.
InitialCamera == [position |-> Vec3f(0, 10, 20), yaw |-> 0, pitch |-> 0]

\* struct AppState, as constructed: nothing loaded.  The field of view
\* (by the tangent of its half) and the planes are whole numbers that make
\* the projection matrix whole-numbered.
EmptyScene ==
    [launchpadMeshes |-> FALSE, vehicleMesh |-> FALSE,
     launchpadPos1 |-> Vec3f(0, 0, 0), launchpadPos2 |-> Vec3f(0, 0, 0),
     vehiclePosition |-> Vec3f(0, 0, 0),
     fov |-> Rat(1, 1), nearPlane |-> Rat(1, 1), farPlane |-> Rat(3, 1),
     mvpLoc |-> TRUE, modelLoc |-> TRUE]

\* The frame loop was not entered.
RenderIdle ==
    /\ scene = EmptyScene
    /\ camera = InitialCamera
    /\ proj = Uninitialized
    /\ view = Uninitialized
    /\ frames = 0
    /\ calls = [o \in Objects \cup {"frame"} |-> NoCalls]
    /\ handed = << >>

\* No element was accessed yet.
NoAccess ==
    [op |-> "none", i |-> 0, j |-> 0, outcome |-> "none", elem |-> 0, val |-> 0,
     before |-> kIdentity44f]

\* The accessor is not in use.
AccessIdle ==
    /\ ndebug = FALSE
    /\ access = NoAccess

NoArgs == [kind |-> "none", t |-> Vec3f(0, 0, 0)]

Init ==
    /\ pc = "start"
    /\ a = kIdentity44f
    /\ b = kIdentity44f
    /\ v = Vec4f(0, 0, 0, 0)
    /\ ret = Uninitialized
    /\ retv = Vec4f(0, 0, 0, 0)
    /\ aArgs = NoArgs
    /\ bArgs = NoArgs
    /\ AccessIdle
    /\ AssocIdle
    /\ RenderIdle
    /\ MainIdle
    /\ InputIdle
    /\ FrameIdle
    /\ MeshIdle

\* The matrix m, produced by the call args, becomes the next operand: the
\* first one built is a, the second one b.
Operand(m, args) ==
    IF pc = "start"
    THEN /\ a' = m
         /\ aArgs' = args
         /\ pc' = "one"
         /\ UNCHANGED << b, bArgs >>
    ELSE /\ b' = m
         /\ bArgs' = args
         /\ pc' = "two"
         /\ UNCHANGED << a, aArgs >>

Aggregate ==
    /\ pc \in {"start", "one"}
    /\ \E m \in MatInputs :
           Operand(m, [kind |-> "aggregate", t |-> Vec3f(0, 0, 0)])
    /\ UNCHANGED << v, ret, retv >>
    /\ UNCHANGED outsideLibrary

MakeTranslation ==
    /\ pc \in {"start", "one"}
    /\ \E t \in Vec3Inputs :
           Operand(make_translation(t), [kind |-> "translation", t |-> t])
    /\ UNCHANGED << v, ret, retv >>
    /\ UNCHANGED outsideLibrary

MakeScaling ==
    /\ pc \in {"start", "one"}
    /\ \E s \in Vec3Inputs :
           Operand(make_scaling(s.x, s.y, s.z), [kind |-> "scaling", t |-> s])
    /\ UNCHANGED << v, ret, retv >>
    /\ UNCHANGED outsideLibrary

\* The argument record of a rotation: the angle, in t.x.
RotationArgs(axis, aAngle) == [kind |-> axis, t |-> Vec3f(aAngle, 0, 0)]

MakeRotationX ==
    /\ pc \in {"start", "one"}
    /\ \E aAngle \in Angles :
           Operand(make_rotation_x(aAngle), RotationArgs("rotation_x", aAngle))
    /\ UNCHANGED << v, ret, retv >>
    /\ UNCHANGED outsideLibrary

MakeRotationY ==
    /\ pc \in {"start", "one"}
    /\ \E aAngle \in Angles :
           Operand(make_rotation_y(aAngle), RotationArgs("rotation_y", aAngle))
    /\ UNCHANGED << v, ret, retv >>
    /\ UNCHANGED outsideLibrary

MakeRotationZ ==
    /\ pc \in {"start", "one"}
    /\ \E aAngle \in Angles :
           Operand(make_rotation_z(aAngle), RotationArgs("rotation_z", aAngle))
    /\ UNCHANGED << v, ret, retv >>
    /\ UNCHANGED outsideLibrary

\* The projection matrix becomes the operand a; its elements are rationals,
\* and so are the points it is applied to.
MakePerspective ==
    /\ pc = "start"
    /\ \E args \in PerspectiveInputs :
           /\ a' = make_perspective_projection(args.fov, args.aspect, args.near, args.far)
           /\ aArgs' = [kind |-> "perspective", t |-> args]
    /\ pc' = "projection"
    /\ UNCHANGED << b, bArgs, v, ret, retv >>
    /\ UNCHANGED outsideLibrary

\* A view-space point on the near plane, on the far plane or half way
\* between them is projected.
Project ==
    /\ pc = "projection"
    /\ \E px \in Vals, py \in Vals,
          pz \in { QNeg(aArgs.t.near), QNeg(aArgs.t.far),
                   QNeg(QDiv(QAdd(aArgs.t.near, aArgs.t.far), Lit(2))) } :
           /\ v' = Vec4f(Lit(px), Lit(py), pz, Lit(1))
           /\ retv' = apply_rational(a, v')
    /\ pc' = "projected"
    /\ UNCHANGED << a, b, ret, aArgs, bArgs >>
    /\ UNCHANGED outsideLibrary

\* The inverse of the first operand is taken and becomes the right operand
\* or, with the first operand moved to the right, the left operand of the
\* product that follows.
Invert ==
    /\ pc = "one"
    /\ HasIntegerInverse(a)
    /\ \/ /\ b' = invert(a)
          /\ bArgs' = [kind |-> "invert", t |-> aArgs.t]
          /\ UNCHANGED << a, aArgs >>
       \/ /\ a' = invert(a)
          /\ aArgs' = [kind |-> "invert", t |-> aArgs.t]
          /\ b' = a
          /\ bArgs' = aArgs
    /\ pc' = "two"
    /\ UNCHANGED << v, ret, retv >>
    /\ UNCHANGED outsideLibrary

Multiply ==
    /\ pc = "two"
    /\ ret' = multiply(a, b)
    /\ pc' = "multiplied"
    /\ UNCHANGED << a, b, v, retv, aArgs, bArgs >>
    /\ UNCHANGED outsideLibrary

Vector ==
    /\ pc = "one"
    /\ \E x \in Vec4Inputs : v' = x
    /\ pc' = "vector"
    /\ UNCHANGED << a, b, ret, retv, aArgs, bArgs >>
    /\ UNCHANGED outsideLibrary

Apply ==
    /\ pc = "vector"
    /\ retv' = apply(a, v)
    /\ pc' = "applied"
    /\ UNCHANGED << a, b, v, ret, aArgs, bArgs >>
    /\ UNCHANGED outsideLibrary

Transpose ==
    /\ pc \in {"one", "transposed"}
    /\ ret' = transpose(IF pc = "one" THEN a ELSE ret)
    /\ pc' = IF pc = "one" THEN "transposed" ELSE "transposed2"
    /\ UNCHANGED << a, b, v, retv, aArgs, bArgs >>
    /\ UNCHANGED outsideLibrary

\* float x = m[i, j]; a read outside the matrix yields whatever is there.
ReadElement ==
    /\ pc = "ready"
    /\ \E aI \in AccessRange, aJ \in AccessRange, garbage \in Vals :
           \E o \in Subscript(aI, aJ) :
               access' = [op |-> "read", i |-> aI, j |-> aJ,
                          outcome |-> o.outcome, elem |-> o.elem,
                          val |-> IF o.outcome # "returned" THEN 0
                                  ELSE IF o.elem \in Idx THEN a[o.elem]
                                  ELSE garbage,
                          before |-> a]
    /\ pc' = "accessed"
    /\ UNCHANGED << a, ndebug, outsideAccess >>

\* m[i, j] = x; a write outside the matrix leaves the matrix as it was.
WriteElement ==
    /\ pc = "ready"
    /\ \E aI \in AccessRange, aJ \in AccessRange, x \in Vals :
           \E o \in Subscript(aI, aJ) :
               /\ access' = [op |-> "write", i |-> aI, j |-> aJ,
                             outcome |-> o.outcome, elem |-> o.elem,
                             val |-> x, before |-> a]
               /\ a' = IF o.outcome = "returned" /\ o.elem \in Idx
                        THEN [a EXCEPT ![o.elem] = x]
                        ELSE a
    /\ pc' = "accessed"
    /\ UNCHANGED << ndebug, outsideAccess >>

\* A matrix, in a build with or without NDEBUG, before any access.
InitAccess ==
    /\ pc = "ready"
    /\ a \in MatInputs
    /\ b = kIdentity44f
    /\ ret = Uninitialized
    /\ aArgs = NoArgs
    /\ bArgs = NoArgs
    /\ ndebug \in BOOLEAN
    /\ access = NoAccess
    /\ VectorIdle
    /\ AssocIdle
    /\ RenderIdle
    /\ MainIdle
    /\ InputIdle
    /\ FrameIdle
    /\ MeshIdle

NextAccess ==
    \/ ReadElement
    \/ WriteElement

SpecAccess == InitAccess /\ [][NextAccess]_vars

\* The operands of the products that are compared: matrices written out
\* element by element and matrices the constructors return, each with the
\* call that produced it.
AssocVecs == { Vec3f(1, 2, 3), Vec3f(MaxVal, 0, -MaxVal) }

AssocInputs ==
    { [m |-> x, args |-> [kind |-> "aggregate", t |-> Vec3f(0, 0, 0)]] :
          x \in {kIdentity44f, Unimodular} \cup { Dense(n) : n \in 1..NumDense } }
        \cup { [m |-> make_translation(t), args |-> [kind |-> "translation", t |-> t]] :
                  t \in AssocVecs }
        \cup { [m |-> make_scaling(s.x, s.y, s.z), args |-> [kind |-> "scaling", t |-> s]] :
                  s \in AssocVecs }
        \cup { [m |-> make_rotation_x(1), args |-> RotationArgs("rotation_x", 1)],
               [m |-> make_rotation_y(1), args |-> RotationArgs("rotation_y", 1)],
               [m |-> make_rotation_z(1), args |-> RotationArgs("rotation_z", 1)] }

\* Mat44f left = (a * b) * c;
LeftAssociated ==
    /\ prods.left = Uninitialized
    /\ prods' = [prods EXCEPT !.left = multiply(multiply(a, b), c)]
    /\ UNCHANGED outsideAssoc

\* Mat44f right = a * (b * c);
RightAssociated ==
    /\ prods.right = Uninitialized
    /\ prods' = [prods EXCEPT !.right = multiply(a, multiply(b, c))]
    /\ UNCHANGED outsideAssoc

\* Mat44f ab = a * b;
InOrder ==
    /\ prods.ab = Uninitialized
    /\ prods' = [prods EXCEPT !.ab = multiply(a, b)]
    /\ UNCHANGED outsideAssoc

\* Mat44f ba = b * a;
Exchanged ==
    /\ prods.ba = Uninitialized
    /\ prods' = [prods EXCEPT !.ba = multiply(b, a)]
    /\ UNCHANGED outsideAssoc

\* Three operands, no product taken yet.
InitAssoc ==
    /\ pc = "operands"
    /\ \E x \in AssocInputs, y \in AssocInputs, z \in AssocInputs :
           /\ a = x.m
           /\ aArgs = x.args
           /\ b = y.m
           /\ bArgs = y.args
           /\ c = z.m
    /\ ret = Uninitialized
    /\ prods = NoProducts
    /\ VectorIdle
    /\ AccessIdle
    /\ RenderIdle
    /\ MainIdle
    /\ InputIdle
    /\ FrameIdle
    /\ MeshIdle

NextAssoc ==
    \/ LeftAssociated
    \/ RightAssociated
    \/ InOrder
    \/ Exchanged

SpecAssoc == InitAssoc /\ [][NextAssoc]_vars

\* Number of frames drawn before the window is closed.
MaxFrames == 2

\* Camera::forward(), Camera::right() and Camera::up().
forward(cam) ==
    Vec3f(cos(cam.yaw) * cos(cam.pitch), sin(cam.pitch), -sin(cam.yaw) * cos(cam.pitch))

right(cam) == Vec3f(cos(cam.yaw), 0, -sin(cam.yaw))

up(cam) == Vec3f(0, 1, 0)

\* Mat44f view{ { ... } }: the rows right, up, -forward, each with its
\* product with the negated position in the last column.
ViewMatrix(cam) ==
    LET fwd == forward(cam)
        rgt == right(cam)
        upv == up(cam)
        pos == cam.position
    IN  Mat44f(<< rgt.x, rgt.y, rgt.z, -(rgt.x * pos.x + rgt.y * pos.y + rgt.z * pos.z),
                  upv.x, upv.y, upv.z, -(upv.x * pos.x + upv.y * pos.y + upv.z * pos.z),
                  -fwd.x, -fwd.y, -fwd.z, fwd.x * pos.x + fwd.y * pos.y + fwd.z * pos.z,
                  0, 0, 0, 1 >>)

\* Every element of the rational matrix m is a whole number.
Whole(m) == \A q \in Idx : m[q].den = 1

\* The whole-numbered rational matrix m, its elements as plain numbers.
Floats(m) == [q \in Idx |-> m[q].num]

\* The arguments for which the projection matrix is whole-numbered.
RenderProjections ==
    { args \in PerspectiveInputs :
        Whole(make_perspective_projection(args.fov, args.aspect, args.near, args.far)) }

\* The aspect ratios of the framebuffer, fbwidth / fbheight, that the
\* scene's field of view and planes are used with.
FrameAspects ==
    { args.aspect : args \in { x \in RenderProjections :
                                  /\ x.fov = scene.fov
                                  /\ x.near = scene.nearPlane
                                  /\ x.far = scene.farPlane } }

\* Where the launchpads and the vehicle stand, where the camera is.
RenderPositions == { Vec3f(0, 0, 0), Vec3f(MaxVal, 2, -3) }

CameraPositions == { InitialCamera.position, Vec3f(1, 2, 3) }

\* What the program may have loaded when it enters the loop.  The field of
\* view and the planes are never assigned: they keep the values they were
\* constructed with.  The launchpad positions are assigned only when the
\* launchpad meshes are loaded.
Scenes ==
    { sc \in [launchpadMeshes : BOOLEAN, vehicleMesh : BOOLEAN,
              launchpadPos1 : RenderPositions, launchpadPos2 : RenderPositions,
              vehiclePosition : RenderPositions,
              fov : {EmptyScene.fov}, nearPlane : {EmptyScene.nearPlane},
              farPlane : {EmptyScene.farPlane},
              mvpLoc : BOOLEAN, modelLoc : BOOLEAN] :
        ~sc.launchpadMeshes
            => sc.launchpadPos1 = Vec3f(0, 0, 0) /\ sc.launchpadPos2 = Vec3f(0, 0, 0) }

\* The matrices of an object handed to glUniformMatrix4fv as they are, row
\* by row.
Handed_rowmajor(o, model) ==
    LET mvp == multiply(multiply(proj, view), model)
    IN  (IF scene.mvpLoc
         THEN << [uniform |-> "uModelViewProjection", object |-> o, value |-> mvp] >>
         ELSE << >>)
        \o (IF scene.modelLoc
            THEN << [uniform |-> "uModel", object |-> o, value |-> model] >>
            ELSE << >>)

\* mvp = proj * view * model; both matrices are transposed and handed to
\* glUniformMatrix4fv, each if its uniform location is valid.
Handed(o, model) ==
    LET mvp == multiply(multiply(proj, view), model)
        mvpT == transpose(mvp)
        modelT == transpose(model)
    IN  (IF scene.mvpLoc
         THEN << [uniform |-> "uModelViewProjection", object |-> o, value |-> mvpT] >>
         ELSE << >>)
        \o (IF scene.modelLoc
            THEN << [uniform |-> "uModel", object |-> o, value |-> modelT] >>
            ELSE << >>)

\* The top of the loop body: events move the camera and resize the
\* framebuffer, then the projection and the view matrix are computed.
BeginFrame ==
    /\ pc = "loop"
    /\ frames < MaxFrames
    /\ \E yaw \in Angles, pos \in CameraPositions, aspect \in FrameAspects :
           /\ camera' = [position |-> pos, yaw |-> yaw, pitch |-> camera.pitch]
           /\ proj' = Floats(make_perspective_projection(scene.fov, aspect,
                                                         scene.nearPlane, scene.farPlane))
           /\ view' = ViewMatrix(camera')
    /\ calls' = [o \in Objects \cup {"frame"} |->
                    IF o = "frame" THEN [NoCalls EXCEPT !.perspective = 1] ELSE NoCalls]
    /\ handed' = << >>
    /\ pc' = "terrain"
    /\ UNCHANGED << scene, frames, outsideRender >>

\* The terrain: model = kIdentity44f, two products, two transpositions.
DrawTerrain ==
    /\ pc = "terrain"
    /\ handed' = handed \o Handed("terrain", kIdentity44f)
    /\ calls' = [calls EXCEPT !["terrain"] =
                    [perspective |-> 0, translation |-> 0, multiply |-> 2, transpose |-> 2]]
    /\ pc' = "launchpad1"
    /\ UNCHANGED << scene, camera, proj, view, frames, outsideRender >>

\* An object placed by a translation: one make_translation, two products,
\* two transpositions.
DrawPlaced(o, position) ==
    /\ handed' = handed \o Handed(o, make_translation(position))
    /\ calls' = [calls EXCEPT ![o] =
                    [perspective |-> 0, translation |-> 1, multiply |-> 2, transpose |-> 2]]

\* The first launchpad instance, if the launchpad meshes were loaded.
DrawLaunchpad1 ==
    /\ pc = "launchpad1"
    /\ scene.launchpadMeshes
    /\ DrawPlaced("launchpad1", scene.launchpadPos1)
    /\ pc' = "launchpad2"
    /\ UNCHANGED << scene, camera, proj, view, frames, outsideRender >>

\* The second launchpad instance.
DrawLaunchpad2 ==
    /\ pc = "launchpad2"
    /\ DrawPlaced("launchpad2", scene.launchpadPos2)
    /\ pc' = "vehicle"
    /\ UNCHANGED << scene, camera, proj, view, frames, outsideRender >>

\* No launchpad mesh was loaded: the block is skipped.
SkipLaunchpads ==
    /\ pc = "launchpad1"
    /\ ~scene.launchpadMeshes
    /\ pc' = "vehicle"
    /\ UNCHANGED << scene, camera, proj, view, frames, calls, handed, outsideRender >>

\* The vehicle, if its mesh was built.
DrawVehicle ==
    /\ pc = "vehicle"
    /\ scene.vehicleMesh
    /\ DrawPlaced("vehicle", scene.vehiclePosition)
    /\ pc' = "end"
    /\ UNCHANGED << scene, camera, proj, view, frames, outsideRender >>

SkipVehicle ==
    /\ pc = "vehicle"
    /\ ~scene.vehicleMesh
    /\ pc' = "end"
    /\ UNCHANGED << scene, camera, proj, view, frames, calls, handed, outsideRender >>

\* glfwSwapBuffers: the frame is done.
EndFrame ==
    /\ pc = "end"
    /\ frames' = frames + 1
    /\ pc' = "loop"
    /\ UNCHANGED << scene, camera, proj, view, calls, handed, outsideRender >>

\* The program enters the loop with what it loaded.
InitRender ==
    /\ pc = "loop"
    /\ scene \in Scenes
    /\ camera = InitialCamera
    /\ proj = Uninitialized
    /\ view = Uninitialized
    /\ frames = 0
    /\ calls = [o \in Objects \cup {"frame"} |-> NoCalls]
    /\ handed = << >>
    /\ a = kIdentity44f
    /\ b = kIdentity44f
    /\ ret = Uninitialized
    /\ aArgs = NoArgs
    /\ bArgs = NoArgs
    /\ VectorIdle
    /\ AccessIdle
    /\ AssocIdle
    /\ MainIdle
    /\ InputIdle
    /\ FrameIdle
    /\ MeshIdle

NextRender ==
    \/ BeginFrame
    \/ DrawTerrain
    \/ DrawLaunchpad1
    \/ DrawLaunchpad2
    \/ SkipLaunchpads
    \/ DrawVehicle
    \/ SkipVehicle
    \/ EndFrame

SpecRender == InitRender /\ [][NextRender]_vars


\* The destructor calls that leaving main makes, for the cleanup objects
\* taken in the order of their construction.
Unwind_construction_order(constructed) ==
    [k \in 1..Len(constructed) |->
        IF constructed[k] = "windowDeleter" THEN "glfwDestroyWindow" ELSE "glfwTerminate"]

\* The destructor calls that leaving main makes, by return or by exception:
\* the cleanup objects are destroyed in the reverse order of their
\* construction; ~GLFWWindowDeleter calls glfwDestroyWindow (its window is
\* never null), ~GLFWCleanupHelper calls glfwTerminate.
Unwind(constructed) ==
    [k \in 1..Len(constructed) |->
        IF constructed[Len(constructed) + 1 - k] = "windowDeleter"
        THEN "glfwDestroyWindow"
        ELSE "glfwTerminate"]

\* An exception leaves main: the locals are destroyed, the handler of the
\* function-try-block returns 1.  No glDelete* call is made.
ThrowError ==
    /\ glfwCalls' = glfwCalls \o Unwind(helpers)
    /\ pc' = "returned1"
    /\ UNCHANGED << handles, meshCount, deletes, glfw, helpers, outsideMain >>

\* glGen*: each object of the group gets a name, or keeps 0 if GL fails.
Generate(group) ==
    \E made \in SUBSET group :
        handles' = [o \in GlObjects |-> handles[o] \/ o \in made]

\* glfwInit() fails: throw, before any cleanup object exists.
GlfwInitFails ==
    /\ pc = "main"
    /\ ThrowError

\* glfwInit() succeeds; GLFWCleanupHelper cleanupHelper;
GlfwInit ==
    /\ pc = "main"
    /\ glfw' = [glfw EXCEPT !.init = TRUE]
    /\ helpers' = Append(helpers, "cleanupHelper")
    /\ pc' = "initialised"
    /\ UNCHANGED << handles, meshCount, deletes, glfwCalls, outsideMain >>

\* glfwCreateWindow() returns null: throw.
CreateWindowFails ==
    /\ pc = "initialised"
    /\ ThrowError

\* glfwCreateWindow() succeeds; GLFWWindowDeleter windowDeleter{ window };
CreateWindow ==
    /\ pc = "initialised"
    /\ glfw' = [glfw EXCEPT !.window = TRUE]
    /\ helpers' = Append(helpers, "windowDeleter")
    /\ pc' = "window"
    /\ UNCHANGED << handles, meshCount, deletes, glfwCalls, outsideMain >>

\* gladLoadGLLoader fails, the terrain model cannot be parsed or
\* triangulated, or it has no indices: throw.
LoadFails ==
    /\ pc = "window"
    /\ ThrowError

\* The GL API, the shader and the terrain model are loaded; the terrain's
\* vertex array and buffers are generated.
CreateTerrain ==
    /\ pc = "window"
    /\ Generate(Buffers("terrain", 0))
    /\ pc' = "terrain"
    /\ UNCHANGED << meshCount, deletes, glfw, helpers, glfwCalls, outsideMain >>

\* The texture image is loaded and a texture is generated, or there is no
\* texture.
LoadTexture ==
    /\ pc = "terrain"
    /\ Generate({Texture})
    /\ pc' = "texture"
    /\ UNCHANGED << meshCount, deletes, glfw, helpers, glfwCalls, outsideMain >>

\* The launchpad model is loaded: one LaunchpadMesh for each material, or
\* none if the file is missing or cannot be read.
LoadLaunchpads ==
    /\ pc = "texture"
    /\ \E count \in 0..MaxMeshes :
           /\ meshCount' = count
           /\ Generate(LaunchpadBuffers(count))
    /\ pc' = "launchpads"
    /\ UNCHANGED << deletes, glfw, helpers, glfwCalls, outsideMain >>

\* The vehicle mesh is built and its vertex array and buffers are
\* generated.
CreateVehicle ==
    /\ pc = "launchpads"
    /\ Generate(Buffers("vehicle", 0))
    /\ pc' = "vehicle"
    /\ UNCHANGED << meshCount, deletes, glfw, helpers, glfwCalls, outsideMain >>

\* The last checkpoint before the loop passes.
EnterLoop ==
    /\ pc = "vehicle"
    /\ pc' = "mainloop"
    /\ UNCHANGED << mainVars, outsideMain >>

\* An exception after the terrain's buffers were generated: a GL error at
\* one of the checkpoints, an error of std::filesystem::exists, a failed
\* allocation while the launchpad or the vehicle is built, or an exception
\* in a frame.
LaterFails ==
    /\ pc \in {"terrain", "texture", "launchpads", "vehicle", "mainloop"}
    /\ ThrowError

\* The window is to be closed: the loop ends, every object with a non-zero
\* name is deleted (the launchpad meshes as far as they were pushed), main
\* returns 0.
CleanupAndReturn ==
    /\ pc = "mainloop"
    /\ deletes' =
           [o \in GlObjects |->
               IF /\ o \in Buffers("terrain", 0) \cup {Texture}
                          \cup LaunchpadBuffers(meshCount) \cup Buffers("vehicle", 0)
                  /\ handles[o]
               THEN deletes[o] + 1
               ELSE deletes[o]]
    /\ glfwCalls' = glfwCalls \o Unwind(helpers)
    /\ pc' = "returned0"
    /\ UNCHANGED << handles, meshCount, glfw, helpers, outsideMain >>

InitMain ==
    /\ pc = "main"
    /\ MainIdle
    /\ a = kIdentity44f
    /\ b = kIdentity44f
    /\ ret = Uninitialized
    /\ aArgs = NoArgs
    /\ bArgs = NoArgs
    /\ VectorIdle
    /\ AccessIdle
    /\ AssocIdle
    /\ RenderIdle
    /\ InputIdle
    /\ FrameIdle
    /\ MeshIdle

NextMain ==
    \/ GlfwInitFails
    \/ GlfwInit
    \/ CreateWindowFails
    \/ CreateWindow
    \/ LoadFails
    \/ CreateTerrain
    \/ LoadTexture
    \/ LoadLaunchpads
    \/ CreateVehicle
    \/ EnterLoop
    \/ LaterFails
    \/ CleanupAndReturn

SpecMain == InitMain /\ [][NextMain]_vars

---------------------------------------------------------------------------
(* The callbacks, and main's loop as far as it delivers events to them.    *)

\* The key callback storing every action that is no press as a release.
Held_norepeat(held, aAction) == aAction = GLFW_PRESS

\* keys[aKey] after the key callback's two assignments.
Held(held, aAction) ==
    IF aAction = GLFW_PRESS THEN TRUE
    ELSE IF aAction = GLFW_RELEASE THEN FALSE
    ELSE held

\* What the write to keys[aKey] does when aKey is no index of keys: the
\* byte in front of the array is padding where double is aligned to 8, and
\* the last byte of camera.pitch where it is aligned to 4 (the sign and the
\* top of the exponent become 0 or 1: a value below 2^-124, 0 in the
\* model's units).
StrayWrites == { "padding", "pitch" }

StrayWrite(outcome) ==
    IF outcome = "pitch" THEN [look EXCEPT !.pitch = 0] ELSE look

\* The actions on which the key callback evaluates keys[aKey].
Subscripts(aAction) == aAction = GLFW_PRESS \/ aAction = GLFW_RELEASE

\* glfw_callback_key_
KeyEvent(aKey, aAction) ==
    /\ loop = "events"
    /\ recent' = IF aAction = GLFW_REPEAT \/ aKey \notin KeyIndices THEN recent
                 ELSE [recent EXCEPT ![aKey] = << aAction >>]
    /\ IF GLFW_KEY_ESCAPE = aKey /\ GLFW_PRESS = aAction
       THEN /\ window' = [window EXCEPT !.shouldClose = TRUE]
            /\ indexed' = << >>
            /\ UNCHANGED << input, look >>
       ELSE /\ indexed' = IF Subscripts(aAction) THEN << aKey >> ELSE << >>
            /\ IF aKey \in KeyIndices
               THEN /\ input' = [input EXCEPT
                                   !.keys[aKey] = Held(input.keys[aKey], aAction)]
                    /\ look' = look
               ELSE /\ input' = input
                    /\ IF Subscripts(aAction)
                       THEN \E outcome \in StrayWrites : look' = StrayWrite(outcome)
                       ELSE look' = look
            /\ window' = window
    /\ UNCHANGED << loop, outsideInput >>

\* The mouse button callback toggling on every event of the right button.
RightPress_anyaction(aButton, aAction) == aButton = GLFW_MOUSE_BUTTON_RIGHT

\* The condition of glfw_callback_mouse_button_.
RightPress(aButton, aAction) ==
    aButton = GLFW_MOUSE_BUTTON_RIGHT /\ aAction = GLFW_PRESS

\* glfw_callback_mouse_button_
MouseButtonEvent(aButton, aAction) ==
    /\ loop = "events"
    /\ IF RightPress(aButton, aAction)
       THEN IF ~input.mouseActive
            THEN /\ input' = [input EXCEPT !.mouseActive = TRUE, !.firstMouse = TRUE]
                 /\ window' = [window EXCEPT !.cursor = "GLFW_CURSOR_DISABLED"]
            ELSE /\ input' = [input EXCEPT !.mouseActive = FALSE]
                 /\ window' = [window EXCEPT !.cursor = "GLFW_CURSOR_NORMAL"]
       ELSE UNCHANGED << input, window >>
    /\ UNCHANGED << look, recent, indexed, loop, outsideInput >>

\* The cursor callback measuring every offset from the stored position.
Anchor_stored(first, last, aPos) == last

\* The position an offset is measured from: the event's own on the first
\* event, the stored one afterwards.
Anchor(first, last, aPos) == IF first THEN aPos ELSE last

\* The clamp with its lower half left out.
ClampPitch_upper(p) == IF p > maxPitch THEN maxPitch ELSE p

\* The two ifs that end glfw_callback_cursor_pos_.
ClampPitch(p) ==
    IF p > maxPitch THEN maxPitch
    ELSE IF p < -maxPitch THEN -maxPitch
    ELSE p

\* yaw and pitch after a cursor event at (aX, aY) while mouse look is on.
Turned(aX, aY) ==
    LET xoffset == aX - Anchor(input.firstMouse, input.lastMouseX, aX)
        yoffset == Anchor(input.firstMouse, input.lastMouseY, aY) - aY
    IN  [ yaw |-> look.yaw + xoffset * mouseSensitivity,
          pitch |-> ClampPitch(look.pitch + yoffset * mouseSensitivity) ]

\* glfw_callback_cursor_pos_
CursorPosEvent(aX, aY) ==
    /\ loop = "events"
    /\ IF ~input.mouseActive
       THEN UNCHANGED << input, look >>
       ELSE /\ Abs(Turned(aX, aY).yaw) <= MaxTurn * Angle(10)
            /\ input' = [input EXCEPT !.lastMouseX = aX, !.lastMouseY = aY,
                                      !.firstMouse = FALSE]
            /\ look' = Turned(aX, aY)
    /\ UNCHANGED << window, recent, indexed, loop, outsideInput >>

\* The user closes the window: GLFW sets the close flag itself.
CloseWindow ==
    /\ loop = "events"
    /\ ~window.shouldClose
    /\ window' = [window EXCEPT !.shouldClose = TRUE]
    /\ UNCHANGED << input, look, recent, indexed, loop, outsideInput >>

\* while( !glfwWindowShouldClose( window ) ), then glfwPollEvents().
EnterFrame ==
    /\ loop = "condition"
    /\ ~window.shouldClose
    /\ loop' = "events"
    /\ UNCHANGED << input, look, window, recent, indexed, outsideInput >>

\* The condition fails: main leaves the loop.
LeaveLoop ==
    /\ loop = "condition"
    /\ window.shouldClose
    /\ loop' = "exited"
    /\ UNCHANGED << input, look, window, recent, indexed, outsideInput >>

\* glfwPollEvents returns; the body goes on to update and draw.
EventsDone ==
    /\ loop = "events"
    /\ loop' = "frame"
    /\ UNCHANGED << input, look, window, recent, indexed, outsideInput >>

\* The rest of the body up to glfwSwapBuffers.
FrameDrawn ==
    /\ loop = "frame"
    /\ loop' = "condition"
    /\ UNCHANGED << input, look, window, recent, indexed, outsideInput >>

InitInput ==
    /\ pc = "input"
    /\ InputIdle
    /\ a = kIdentity44f
    /\ b = kIdentity44f
    /\ ret = Uninitialized
    /\ aArgs = NoArgs
    /\ bArgs = NoArgs
    /\ VectorIdle
    /\ AccessIdle
    /\ AssocIdle
    /\ RenderIdle
    /\ MainIdle
    /\ FrameIdle
    /\ MeshIdle

NextInput ==
    \/ \E aKey \in KeyCodes, aAction \in KeyActions : KeyEvent(aKey, aAction)
    \/ \E aButton \in MouseButtons, aAction \in KeyActions :
           MouseButtonEvent(aButton, aAction)
    \/ \E aPos \in CursorPositions : CursorPosEvent(aPos[1], aPos[2])
    \/ CloseWindow
    \/ EnterFrame
    \/ LeaveLoop
    \/ EventsDone
    \/ FrameDrawn

SpecInput == InitInput /\ [][NextInput]_vars

---------------------------------------------------------------------------
(* The pass: size query, projection, the three draw blocks.                *)

Minimized(nwidth, nheight) == 0 = nwidth \/ 0 = nheight

\* glfwGetFramebufferSize and the two assignments that follow it.
QuerySize ==
    /\ step = "events"
    /\ passes < MaxFrames
    /\ \E nwidth \in FramebufferSizes, nheight \in FramebufferSizes :
           /\ fbsize' = [nwidth |-> nwidth, nheight |-> nheight,
                         fbwidth |-> nwidth, fbheight |-> nheight]
           /\ step' = IF Minimized(nwidth, nheight) THEN "minimized" ELSE "update"
    /\ aspectArgs' = << >>
    /\ drawn' = << >>
    /\ UNCHANGED << assets, uniforms, passes, pc, outsideFrame >>

\* One turn of the do-while: glfwWaitEvents, then the size again.
WaitEvents ==
    /\ step = "minimized"
    /\ \E nwidth \in FramebufferSizes, nheight \in FramebufferSizes :
           /\ fbsize' = [fbsize EXCEPT !.nwidth = nwidth, !.nheight = nheight]
           /\ step' = IF Minimized(nwidth, nheight) THEN "minimized" ELSE "update"
    /\ UNCHANGED << assets, aspectArgs, uniforms, drawn, passes, pc, outsideFrame >>

\* glViewport, the update of the camera, then aspect = fbwidth / fbheight.
ComputeAspect ==
    /\ step = "update"
    /\ aspectArgs' = << [width |-> fbsize.fbwidth, height |-> fbsize.fbheight] >>
    /\ step' = "terrain"
    /\ UNCHANGED << assets, fbsize, uniforms, drawn, passes, pc, outsideFrame >>

Textured == assets.hasTexture /\ assets.texture # 0

\* A glDrawElements call under the switches u.
Draw(object, u) ==
    [object |-> object, uUseTexture |-> u.uUseTexture,
     uUseMaterialColor |-> u.uUseMaterialColor]

\* The terrain block leaving uUseTexture alone when there is a texture.
TerrainUseTexture_kept(current, textured) == IF textured THEN current ELSE 0

\* uUseTexture after the if/else in front of the terrain's draw.
TerrainUseTexture(current, textured) == IF textured THEN 1 ELSE 0

TerrainDraw ==
    /\ step = "terrain"
    /\ uniforms' = [uniforms EXCEPT
                      !.uUseTexture = TerrainUseTexture(uniforms.uUseTexture, Textured)]
    /\ drawn' = << Draw("terrain", uniforms') >>
    /\ step' = "launchpads"
    /\ UNCHANGED << assets, fbsize, aspectArgs, passes, pc, outsideFrame >>

\* The launchpad block: every mesh at the first position, then at the second.
LaunchpadDraws ==
    /\ step = "launchpads"
    /\ IF assets.meshes # 0
       THEN LET during == [uUseTexture |-> 0, uUseMaterialColor |-> 1]
            IN  /\ drawn' = drawn \o [n \in 1..(2 * assets.meshes) |->
                                         Draw("launchpad", during)]
                /\ uniforms' = [uUseTexture |-> IF Textured THEN 1 ELSE 0,
                                uUseMaterialColor |-> 0]
       ELSE UNCHANGED << drawn, uniforms >>
    /\ step' = "vehicle"
    /\ UNCHANGED << assets, fbsize, aspectArgs, passes, pc, outsideFrame >>

\* The vehicle block; it does not set uUseTexture back.
VehicleDraw ==
    /\ step = "vehicle"
    /\ IF assets.vehicle
       THEN LET during == [uUseTexture |-> 0, uUseMaterialColor |-> 1]
            IN  /\ drawn' = Append(drawn, Draw("vehicle", during))
                /\ uniforms' = [during EXCEPT !.uUseMaterialColor = 0]
       ELSE UNCHANGED << drawn, uniforms >>
    /\ step' = "swap"
    /\ UNCHANGED << assets, fbsize, aspectArgs, passes, pc, outsideFrame >>

\* glfwSwapBuffers, and back to the loop's condition.
SwapBuffers ==
    /\ step = "swap"
    /\ passes' = passes + 1
    /\ step' = "events"
    /\ UNCHANGED << assets, fbsize, aspectArgs, uniforms, drawn, pc, outsideFrame >>

InitFrame ==
    /\ pc = "frame"
    /\ assets \in AssetSets
    /\ fbsize = NoSize
    /\ aspectArgs = << >>
    /\ uniforms = InitialUniforms
    /\ drawn = << >>
    /\ step = "events"
    /\ passes = 0
    /\ a = kIdentity44f
    /\ b = kIdentity44f
    /\ ret = Uninitialized
    /\ aArgs = NoArgs
    /\ bArgs = NoArgs
    /\ VectorIdle
    /\ AccessIdle
    /\ AssocIdle
    /\ RenderIdle
    /\ MainIdle
    /\ InputIdle
    /\ MeshIdle

NextFrame ==
    \/ QuerySize
    \/ WaitEvents
    \/ ComputeAspect
    \/ TerrainDraw
    \/ LaunchpadDraws
    \/ VehicleDraw
    \/ SwapBuffers

SpecFrame == InitFrame /\ [][NextFrame]_vars

---------------------------------------------------------------------------
(* addVertex, createBox, createCylinder, createSphere and the assembly.    *)

\* The floats addVertex pushes: position, normal, texture coordinate.
VertexFloats == 8

\* vertices after count calls of addVertex by the given shape.
addVertex(vertices, count, shape) ==
    vertices \o [n \in 1..(count * VertexFloats) |-> shape]

\* An index pushed while the vertex array holds emitted vertices.
Index(index, emitted, shape) == [index |-> index, emitted |-> emitted, shape |-> shape]

\* The two triangles of a box face, relative to the face's first vertex.
FaceCorners == << 0, 1, 2, 0, 2, 3 >>

\* createBox: six faces, each four vertices and then six indices.
BoxIndices(baseIndex, shape) ==
    [n \in 1..36 |->
        LET face == (n - 1) \div 6
        IN  Index(baseIndex + 4 * face + FaceCorners[((n - 1) % 6) + 1],
                  baseIndex + 4 * (face + 1), shape)]

\* The ring of a cylinder: a top and a bottom vertex for i = 0..segments.
RingVertices(segments) == (segments + 1) * 2

\* The side faces of a cylinder: top1, bot1, top2, bot1, bot2, top2.
SideIndices(baseIndex, segments, shape) ==
    [n \in 1..(6 * segments) |->
        LET i == (n - 1) \div 6
            top1 == baseIndex + i * 2
            top2 == baseIndex + (i + 1) * 2
            bot1 == baseIndex + i * 2 + 1
            bot2 == baseIndex + (i + 1) * 2 + 1
        IN  Index(<< top1, bot1, top2, bot1, bot2, top2 >>[((n - 1) % 6) + 1],
                  baseIndex + RingVertices(segments), shape)]

\* A cap of a cylinder: per segment three vertices, then their three indices.
CapIndices(baseIndex, segments, shape) ==
    [n \in 1..(3 * segments) |->
        LET i == (n - 1) \div 3
        IN  Index(baseIndex + 3 * i + ((n - 1) % 3), baseIndex + 3 * (i + 1), shape)]

\* A sphere generating only segments vertices per ring.
SphereVertices_open(segments) == (segments + 1) * segments

\* The vertices of a sphere: i and j both run over 0..segments.
SphereVertices(segments) == (segments + 1) * (segments + 1)

\* The indices of a sphere: first, second, first + 1, second, second + 1,
\* first + 1 for i and j below segments.
SphereIndices(baseIndex, segments, shape) ==
    [n \in 1..(6 * segments * segments) |->
        LET cell == (n - 1) \div 6
            i == cell \div segments
            j == cell % segments
            first == baseIndex + i * (segments + 1) + j
            second == first + segments + 1
        IN  Index(<< first, second, first + 1, second, second + 1, first + 1 >>
                      [((n - 1) % 6) + 1],
                  baseIndex + SphereVertices(segments), shape)]

\* The two vectors after createBox.
createBox(mesh, shape) ==
    LET baseIndex == Len(mesh.vertices) \div VertexFloats
    IN  [ vertices |-> addVertex(mesh.vertices, 24, shape),
          indices |-> mesh.indices \o BoxIndices(baseIndex, shape) ]

\* The two vectors after createCylinder.
createCylinder(mesh, segments, shape) ==
    LET baseIndex == Len(mesh.vertices) \div VertexFloats
        top == baseIndex + RingVertices(segments)
        bottom == top + 3 * segments
    IN  [ vertices |-> addVertex(mesh.vertices, RingVertices(segments) + 6 * segments, shape),
          indices |-> mesh.indices \o SideIndices(baseIndex, segments, shape)
                          \o CapIndices(top, segments, shape)
                          \o CapIndices(bottom, segments, shape) ]

\* The two vectors after createSphere.
createSphere(mesh, segments, shape) ==
    LET baseIndex == Len(mesh.vertices) \div VertexFloats
    IN  [ vertices |-> addVertex(mesh.vertices, SphereVertices(segments), shape),
          indices |-> mesh.indices \o SphereIndices(baseIndex, segments, shape) ]

Mesh == [vertices |-> vehicleVertices, indices |-> vehicleIndices]

Segments == 1..MaxSegments

CreateBox ==
    /\ shapes < MaxShapes
    /\ LET mesh == createBox(Mesh, shapes + 1)
       IN  /\ vehicleVertices' = mesh.vertices
           /\ vehicleIndices' = mesh.indices
    /\ shapes' = shapes + 1
    /\ UNCHANGED << pc, outsideMesh >>

CreateCylinder ==
    /\ shapes < MaxShapes
    /\ \E segments \in Segments :
           LET mesh == createCylinder(Mesh, segments, shapes + 1)
           IN  /\ vehicleVertices' = mesh.vertices
               /\ vehicleIndices' = mesh.indices
    /\ shapes' = shapes + 1
    /\ UNCHANGED << pc, outsideMesh >>

CreateSphere ==
    /\ shapes < MaxShapes
    /\ \E segments \in Segments :
           LET mesh == createSphere(Mesh, segments, shapes + 1)
           IN  /\ vehicleVertices' = mesh.vertices
               /\ vehicleIndices' = mesh.indices
    /\ shapes' = shapes + 1
    /\ UNCHANGED << pc, outsideMesh >>

\* The eight calls of main: cylinder, cylinder, sphere, three boxes,
\* cylinder, sphere, with main's segment counts.
vehicle ==
    LET body == createCylinder([vertices |-> << >>, indices |-> << >>], 16, 1)
        nose == createCylinder(body, 16, 2)
        tip == createSphere(nose, 12, 3)
        leftFin == createBox(tip, 4)
        rightFin == createBox(leftFin, 5)
        frontFin == createBox(rightFin, 6)
        nozzle == createCylinder(frontFin, 16, 7)
    IN  createSphere(nozzle, 8, 8)

AssembleVehicle ==
    /\ shapes = 0
    /\ vehicleVertices' = vehicle.vertices
    /\ vehicleIndices' = vehicle.indices
    /\ shapes' = 8
    /\ UNCHANGED << pc, outsideMesh >>

InitMesh ==
    /\ pc = "mesh"
    /\ MeshIdle
    /\ a = kIdentity44f
    /\ b = kIdentity44f
    /\ ret = Uninitialized
    /\ aArgs = NoArgs
    /\ bArgs = NoArgs
    /\ VectorIdle
    /\ AccessIdle
    /\ AssocIdle
    /\ RenderIdle
    /\ MainIdle
    /\ InputIdle
    /\ FrameIdle

NextMesh ==
    \/ CreateBox
    \/ CreateCylinder
    \/ CreateSphere
    \/ AssembleVehicle

SpecMesh == InitMesh /\ [][NextMesh]_vars

Next ==
    \/ Aggregate
    \/ MakeTranslation
    \/ MakeScaling
    \/ MakeRotationX
    \/ MakeRotationY
    \/ MakeRotationZ
    \/ MakePerspective
    \/ Project
    \/ Invert
    \/ Multiply
    \/ Vector
    \/ Apply
    \/ Transpose

Spec == Init /\ [][Next]_vars

---------------------------------------------------------------------------
(* Properties of the library.                                              *)

\* The element the identity matrix has at index q.
IdentityAt(q) == IF q \in {0, 5, 10, 15} THEN 1 ELSE 0

\* C1: the product of two translation matrices has the element-wise sum of
\* the two offsets in the first three entries of its last column (indices
\* 3, 7, 11) and the identity's element everywhere else.
C1_TranslationComposition ==
    (pc = "multiplied" /\ aArgs.kind = "translation" /\ bArgs.kind = "translation")
        => ret = [q \in Idx |->
                    CASE q = 3 -> aArgs.t.x + bArgs.t.x
                      [] q = 7 -> aArgs.t.y + bArgs.t.y
                      [] q = 11 -> aArgs.t.z + bArgs.t.z
                      [] OTHER -> IdentityAt(q)]

\* The test's case: translations by (1,2,3) and (4,5,6) were multiplied.
C1_Witness ==
    /\ pc = "multiplied"
    /\ aArgs = [kind |-> "translation", t |-> Vec3f(1, 2, 3)]
    /\ bArgs = [kind |-> "translation", t |-> Vec3f(4, 5, 6)]
    /\ ret[3] = 5 /\ ret[7] = 7 /\ ret[11] = 9

\* C2: the product of two scaling matrices has diagonal (a*d, b*e, c*f, 1)
\* and zero in every off-diagonal entry.
C2_ScalingComposition ==
    (pc = "multiplied" /\ aArgs.kind = "scaling" /\ bArgs.kind = "scaling")
        => ret = [q \in Idx |->
                    CASE q = 0 -> aArgs.t.x * bArgs.t.x
                      [] q = 5 -> aArgs.t.y * bArgs.t.y
                      [] q = 10 -> aArgs.t.z * bArgs.t.z
                      [] q = 15 -> 1
                      [] OTHER -> 0]

\* Scalings by three different factors each were multiplied.
C2_Witness ==
    /\ pc = "multiplied"
    /\ aArgs = [kind |-> "scaling", t |-> Vec3f(2, 3, 4)]
    /\ bArgs = [kind |-> "scaling", t |-> Vec3f(4, 5, 6)]
    /\ ret[0] = 8 /\ ret[5] = 15 /\ ret[10] = 24

\* C3: multiply(a, b) is the row-by-column product over row-major storage:
\* every one of the sixteen entries is written, and entry i*4+j is the sum
\* over k of a[i*4+k] * b[k*4+j].
C3_MultiplyIsProduct ==
    pc = "multiplied"
        => /\ DOMAIN ret = Idx
           /\ \A i \in Dim, j \in Dim :
                  ret[i * 4 + j] = a[i * 4] * b[j] + a[i * 4 + 1] * b[4 + j]
                                     + a[i * 4 + 2] * b[8 + j] + a[i * 4 + 3] * b[12 + j]

\* Two dense matrices were multiplied, and the product is neither of them.
C3_Witness ==
    /\ pc = "multiplied"
    /\ a = Dense(1)
    /\ b = Dense(2)
    /\ \A q \in Idx : a[q] # 0 \/ b[q] # 0
    /\ ret # a /\ ret # b

\* C4: apply(a, v) is the matrix-vector product: component i of the result
\* is the sum over j of a[i*4+j] * v[j].
C4_ApplyIsProduct ==
    pc = "applied"
        => LET vin == << v.x, v.y, v.z, v.w >>
               vout == << retv.x, retv.y, retv.z, retv.w >>
           IN  \A i \in Dim :
                   vout[i + 1] = a[i * 4] * vin[1] + a[i * 4 + 1] * vin[2]
                                   + a[i * 4 + 2] * vin[3] + a[i * 4 + 3] * vin[4]

\* A dense matrix was applied to a vector with four different components.
C4_Witness ==
    /\ pc = "applied"
    /\ a = Dense(1)
    /\ v = Vec4f(1, 2, 3, 4)
    /\ retv # v

\* C5: the identity matrix has 1 at indices 0, 5, 10, 15 and 0 elsewhere,
\* and is neutral for multiply on either side.
C5_IdentityNeutral ==
    /\ kIdentity44f = [q \in Idx |-> IdentityAt(q)]
    /\ (pc = "multiplied" /\ a = kIdentity44f) => ret = b
    /\ (pc = "multiplied" /\ b = kIdentity44f) => ret = a

\* A dense matrix was multiplied by the identity.
C5_Witness ==
    /\ pc = "multiplied"
    /\ a = kIdentity44f
    /\ b = Dense(2)
    /\ ret = Dense(2)

\* C6: applying the identity matrix to a vector returns the vector.
C6_ApplyIdentity ==
    (pc = "applied" /\ a = kIdentity44f) => retv = v

\* The test's case: the identity was applied to (1,2,3,4).
C6_Witness ==
    /\ pc = "applied"
    /\ a = kIdentity44f
    /\ v = Vec4f(1, 2, 3, 4)
    /\ retv = Vec4f(1, 2, 3, 4)

\* C7: transposing twice gives the matrix back, in all sixteen entries.
C7_TransposeRoundTrip ==
    pc = "transposed2" => ret = a

\* A matrix that is not symmetric was transposed twice.
C7_Witness ==
    /\ pc = "transposed2"
    /\ \E i \in Dim, j \in Dim : a[i * 4 + j] # a[j * 4 + i]
    /\ DOMAIN ret = Idx

\* C8: transpose(a) has at row j, column i what a has at row i, column j,
\* and all sixteen entries of the result are written.
C8_TransposeSwaps ==
    pc = "transposed"
        => /\ DOMAIN ret = Idx
           /\ \A i \in Dim, j \in Dim : ret[j * 4 + i] = a[i * 4 + j]

\* A matrix that is not symmetric was transposed once.
C8_Witness ==
    /\ pc = "transposed"
    /\ a = Dense(1)
    /\ ret # a

\* C9: make_translation(t) is the identity except that indices 3, 7, 11
\* hold t.x, t.y, t.z.
C9_MakeTranslation ==
    LET Expected(t) == [q \in Idx |->
                          CASE q = 3 -> t.x
                            [] q = 7 -> t.y
                            [] q = 11 -> t.z
                            [] OTHER -> IdentityAt(q)]
    IN  /\ aArgs.kind = "translation" => a = Expected(aArgs.t)
        /\ bArgs.kind = "translation" => b = Expected(bArgs.t)

\* The test's case: a translation by (5,10,15) was built.
C9_Witness ==
    /\ aArgs = [kind |-> "translation", t |-> Vec3f(5, 10, 15)]
    /\ a[3] = 5 /\ a[7] = 10 /\ a[11] = 15

\* C10: applying a translation matrix to a point (w = 1) adds the offset
\* to x, y, z and leaves w = 1; a translation by (2,3,4) maps (1,1,1,1) to
\* (3,4,5,1).
C10_TranslatePoint ==
    (pc = "applied" /\ aArgs.kind = "translation" /\ v.w = 1)
        => /\ retv = Vec4f(v.x + aArgs.t.x, v.y + aArgs.t.y, v.z + aArgs.t.z, 1)
           /\ (aArgs.t = Vec3f(2, 3, 4) /\ v = Vec4f(1, 1, 1, 1))
                  => retv = Vec4f(3, 4, 5, 1)

\* The test's case: the translation by (2,3,4) was applied to (1,1,1,1).
C10_Witness ==
    /\ pc = "applied"
    /\ aArgs = [kind |-> "translation", t |-> Vec3f(2, 3, 4)]
    /\ v = Vec4f(1, 1, 1, 1)
    /\ retv = Vec4f(3, 4, 5, 1)

\* C11: make_scaling(sx, sy, sz) is the identity except that indices 0, 5,
\* 10 hold sx, sy, sz: index 15 is 1 and every off-diagonal entry is 0.
C11_MakeScaling ==
    LET Expected(s) == [q \in Idx |->
                          CASE q = 0 -> s.x
                            [] q = 5 -> s.y
                            [] q = 10 -> s.z
                            [] q = 15 -> 1
                            [] OTHER -> 0]
    IN  /\ aArgs.kind = "scaling" => a = Expected(aArgs.t)
        /\ bArgs.kind = "scaling" => b = Expected(bArgs.t)

\* The test's case: make_scaling(2, 3, 4) was built.
C11_Witness ==
    /\ aArgs = [kind |-> "scaling", t |-> Vec3f(2, 3, 4)]
    /\ a[0] = 2 /\ a[5] = 3 /\ a[10] = 4 /\ a[15] = 1

\* C12: applying a scaling matrix multiplies x, y, z by sx, sy, sz and
\* keeps w; make_scaling(2,3,4) maps (2,2,2,1) to (4,6,8,1).
C12_ScaleVector ==
    (pc = "applied" /\ aArgs.kind = "scaling")
        => /\ retv = Vec4f(aArgs.t.x * v.x, aArgs.t.y * v.y, aArgs.t.z * v.z, v.w)
           /\ (aArgs.t = Vec3f(2, 3, 4) /\ v = Vec4f(2, 2, 2, 1))
                  => retv = Vec4f(4, 6, 8, 1)

\* The test's case: make_scaling(2,3,4) was applied to (2,2,2,1).
C12_Witness ==
    /\ pc = "applied"
    /\ aArgs = [kind |-> "scaling", t |-> Vec3f(2, 3, 4)]
    /\ v = Vec4f(2, 2, 2, 1)
    /\ retv = Vec4f(4, 6, 8, 1)

\* C13: with cos(0) = 1 and sin(0) = 0, the rotation by a zero angle about
\* each axis is the identity in all sixteen entries.
C13_ZeroRotation ==
    /\ cos(0) = 1 /\ sin(0) = 0
    /\ (aArgs.kind \in {"rotation_x", "rotation_y", "rotation_z"} /\ aArgs.t.x = 0)
           => a = [q \in Idx |-> IdentityAt(q)]
    /\ (bArgs.kind \in {"rotation_x", "rotation_y", "rotation_z"} /\ bArgs.t.x = 0)
           => b = [q \in Idx |-> IdentityAt(q)]

\* A rotation by zero about Z is the second operand, after one about X.
C13_Witness ==
    /\ aArgs = RotationArgs("rotation_x", 0)
    /\ bArgs = RotationArgs("rotation_z", 0)
    /\ a = b

\* C14: a rotation by 90 degrees (cos = 0, sin = 1) about X maps (1,1,0,1)
\* to (1,0,1,1), about Y maps (1,1,0,1) to (0,1,-1,1), about Z maps
\* (1,0,1,1) to (0,1,1,1); the component along the axis and w are unchanged
\* for every vector.
C14_QuarterTurn ==
    (pc = "applied" /\ aArgs.t.x = 1)
        => /\ aArgs.kind = "rotation_x"
                => /\ retv.x = v.x /\ retv.w = v.w
                   /\ v = Vec4f(1, 1, 0, 1) => retv = Vec4f(1, 0, 1, 1)
           /\ aArgs.kind = "rotation_y"
                => /\ retv.y = v.y /\ retv.w = v.w
                   /\ v = Vec4f(1, 1, 0, 1) => retv = Vec4f(0, 1, -1, 1)
           /\ aArgs.kind = "rotation_z"
                => /\ retv.z = v.z /\ retv.w = v.w
                   /\ v = Vec4f(1, 0, 1, 1) => retv = Vec4f(0, 1, 1, 1)

\* The test's case about Y: the quarter turn was applied to (1,1,0,1).
C14_Witness ==
    /\ pc = "applied"
    /\ aArgs = RotationArgs("rotation_y", 1)
    /\ v = Vec4f(1, 1, 0, 1)
    /\ retv = Vec4f(0, 1, -1, 1)

\* The entries a constructor sets from its arguments.
ArgumentEntries(kind) ==
    CASE kind = "translation" -> {3, 7, 11}
      [] kind = "scaling" -> {0, 5, 10}
      [] kind = "rotation_x" -> {5, 6, 9, 10}
      [] kind = "rotation_y" -> {0, 2, 8, 10}
      [] kind = "rotation_z" -> {0, 1, 4, 5}
      [] kind = "perspective" -> {0, 5, 10, 11}
      [] OTHER -> Idx

\* The value v of a matrix element is the integer n.
IsInt(kind, val, n) == IF kind = "perspective" THEN val = Lit(n) ELSE val = n

\* C15 as stated: every make_* constructor, make_perspective_projection
\* among them, returns the identity's element in every entry it does not
\* set from its arguments.
C15_Original ==
    \A q \in Idx \ ArgumentEntries(aArgs.kind) :
        IsInt(aArgs.kind, a[q], IdentityAt(q))

\* C15, amended: make_translation, make_scaling and make_rotation_x/y/z
\* return the identity's element in every entry they do not set from their
\* arguments; make_perspective_projection returns 0 in every such entry
\* except index 14, where it returns -1, so it differs from the identity at
\* indices 14 and 15.
C15_ConstructorsOtherwiseIdentity ==
    /\ aArgs.kind \in {"translation", "scaling", "rotation_x", "rotation_y", "rotation_z"}
           => \A q \in Idx \ ArgumentEntries(aArgs.kind) : a[q] = IdentityAt(q)
    /\ bArgs.kind \in {"translation", "scaling", "rotation_x", "rotation_y", "rotation_z"}
           => \A q \in Idx \ ArgumentEntries(bArgs.kind) : b[q] = IdentityAt(q)
    /\ aArgs.kind = "perspective"
           => \A q \in Idx \ ArgumentEntries("perspective") :
                  a[q] = Lit(IF q = 14 THEN -1 ELSE 0)

\* A projection matrix was built: its last row is (0, 0, -1, 0).
C15_Witness ==
    /\ aArgs.kind = "perspective"
    /\ a[14] = Lit(-1)
    /\ a[15] = Lit(0)

\* C16: with f = 1 / tan(fov / 2) and 0 < near < far the projection matrix
\* has f / aspect at [0][0], f at [1][1], (far + near) / (near - far) at
\* [2][2], 2 * far * near / (near - far) at [2][3], -1 at [3][2] and 0
\* elsewhere; a point at z = -near gets clip z = -w and a point at z = -far
\* gets clip z = +w, w being positive.
C16_Perspective ==
    aArgs.kind = "perspective"
        => LET t == aArgs.t
               f == QDiv(Lit(1), t.fov)
               d == QSub(t.near, t.far)
           IN  /\ a = [q \in Idx |->
                         CASE q = 0 -> QDiv(f, t.aspect)
                           [] q = 5 -> f
                           [] q = 10 -> QDiv(QAdd(t.far, t.near), d)
                           [] q = 11 -> QDiv(QMul(Lit(2), QMul(t.far, t.near)), d)
                           [] q = 14 -> Lit(-1)
                           [] OTHER -> Lit(0)]
               /\ pc = "projected"
                    => /\ retv.w.num > 0
                       /\ v.z = QNeg(t.near) => retv.z = QNeg(retv.w)
                       /\ v.z = QNeg(t.far) => retv.z = retv.w

\* With the renderer's near plane (0.1) and the far plane at 100, a point
\* on the far plane was projected.
C16_Witness ==
    /\ pc = "projected"
    /\ aArgs.kind = "perspective"
    /\ aArgs.t.near = Rat(1, 10)
    /\ aArgs.t.far = Rat(100, 1)
    /\ v.z = Rat(-100, 1)
    /\ retv.z = retv.w
    /\ retv.w = Rat(100, 1)

C18_Original ==
    access.op # "none"
        => /\ Precondition(access.i, access.j)
                => access.outcome = "returned" /\ access.elem = access.i * 4 + access.j
           /\ ~Precondition(access.i, access.j)
                => access.outcome = "aborted" /\ a = access.before

\* C18, amended: an access with aI < 4 and aJ < 4 reads or writes element
\* aI * 4 + aJ and no other; in a build without NDEBUG an access with
\* aI >= 4 or aJ >= 4 aborts on the assert and the matrix is untouched; in
\* a build with NDEBUG the assert is compiled out, and such an access with
\* aI * 4 + aJ < 16 silently reads or writes that element of the matrix.
C18_Accessor ==
    access.op # "none"
        => LET q == access.i * 4 + access.j
           IN  /\ Precondition(access.i, access.j)
                    => /\ access.outcome = "returned"
                       /\ access.elem = q
                       /\ access.op = "read" => access.val = a[q] /\ a = access.before
                       /\ access.op = "write" => a = [access.before EXCEPT ![q] = access.val]
               /\ (~Precondition(access.i, access.j) /\ ~ndebug)
                    => access.outcome = "aborted" /\ a = access.before
               /\ (~Precondition(access.i, access.j) /\ ndebug /\ q < 16)
                    => /\ access.outcome = "returned"
                       /\ access.elem = q
                       /\ access.op = "write" => a = [access.before EXCEPT ![q] = access.val]

\* With NDEBUG, m[0, 5] = x changed element 5 (row 1, column 1) of the
\* matrix.
C18_Witness ==
    /\ ndebug
    /\ access.op = "write"
    /\ access.i = 0
    /\ access.j = 5
    /\ access.outcome = "returned"
    /\ a[5] # access.before[5]

\* C19: multiply is associative, (a * b) * c = a * (b * c) for all
\* matrices a, b, c, and it is not commutative: a translation by t and a
\* scaling by s give different products in the two orders whenever some
\* axis has a non-zero offset and a factor other than 1.
C19_AssociativeNotCommutative ==
    /\ (prods.left # Uninitialized /\ prods.right # Uninitialized)
            => prods.left = prods.right
    /\ (/\ prods.ab # Uninitialized
        /\ prods.ba # Uninitialized
        /\ aArgs.kind = "translation"
        /\ bArgs.kind = "scaling"
        /\ \/ aArgs.t.x # 0 /\ bArgs.t.x # 1
           \/ aArgs.t.y # 0 /\ bArgs.t.y # 1
           \/ aArgs.t.z # 0 /\ bArgs.t.z # 1)
            => prods.ab # prods.ba

\* The translation by (1,2,3), the scaling by (1,2,3) and a dense matrix
\* were multiplied: the two groupings agree on a matrix that is not the
\* identity, and the two orders give the offsets (1,2,3) and (1,4,9).
C19_Witness ==
    /\ aArgs = [kind |-> "translation", t |-> Vec3f(1, 2, 3)]
    /\ bArgs = [kind |-> "scaling", t |-> Vec3f(1, 2, 3)]
    /\ c = Dense(1)
    /\ prods.left # Uninitialized
    /\ prods.left = prods.right
    /\ prods.left # kIdentity44f
    /\ prods.ab # Uninitialized
    /\ prods.ba # Uninitialized
    /\ << prods.ab[3], prods.ab[7], prods.ab[11] >> = << 1, 2, 3 >>
    /\ << prods.ba[3], prods.ba[7], prods.ba[11] >> = << 1, 4, 9 >>

\* The model matrix of the object o in the frame.
ModelOf(o) ==
    CASE o = "terrain" -> kIdentity44f
      [] o = "launchpad1" -> make_translation(scene.launchpadPos1)
      [] o = "launchpad2" -> make_translation(scene.launchpadPos2)
      [] o = "vehicle" -> make_translation(scene.vehiclePosition)

\* The row-major matrix that the handed-over matrix h was made from.
RowMajorOf(h) ==
    IF h.uniform = "uModel"
    THEN ModelOf(h.object)
    ELSE multiply(multiply(proj, view), ModelOf(h.object))

\* Every matrix handed to glUniformMatrix4fv in the frame is the transpose
\* of the row-major matrix it was made from.
HandedTransposed ==
    \A k \in DOMAIN handed :
        \A r \in Dim, col \in Dim :
            handed[k].value[r * 4 + col] = RowMajorOf(handed[k])[col * 4 + r]

\* C20 as stated: in every frame, for each of the four objects, the
\* renderer calls make_perspective_projection, make_translation, multiply
\* and transpose once, and every matrix handed over is a transpose.
C20_Original ==
    /\ pc = "end"
           => \A o \in Objects :
                  calls[o] = [perspective |-> 1, translation |-> 1,
                              multiply |-> 1, transpose |-> 1]
    /\ HandedTransposed

\* C20, amended: in every frame make_perspective_projection is called
\* once, for all objects together; the terrain is drawn with the identity
\* as its model matrix, without make_translation; each launchpad instance
\* (drawn if the launchpad meshes were loaded) and the vehicle (drawn if
\* its mesh was built) get one make_translation; every drawn object gets
\* two multiply (proj * view * model) and two transpose (of the combined
\* and of the model matrix); every matrix handed to glUniformMatrix4fv is
\* the transpose of the row-major matrix.
C20_FrameMatrices ==
    /\ pc = "end"
           => LET Drawn(n) ==
                      [perspective |-> 0, translation |-> n, multiply |-> 2, transpose |-> 2]
                  Launchpad == IF scene.launchpadMeshes THEN Drawn(1) ELSE NoCalls
              IN  /\ calls["frame"] = [NoCalls EXCEPT !.perspective = 1]
                  /\ calls["terrain"] = Drawn(0)
                  /\ calls["launchpad1"] = Launchpad
                  /\ calls["launchpad2"] = Launchpad
                  /\ calls["vehicle"] = IF scene.vehicleMesh THEN Drawn(1) ELSE NoCalls
    /\ HandedTransposed

\* The second frame ended with all four objects drawn and eight matrices
\* handed over; the combined matrix of the vehicle is not symmetric.
C20_Witness ==
    /\ pc = "end"
    /\ frames = 1
    /\ scene.launchpadMeshes
    /\ scene.vehicleMesh
    /\ Len(handed) = 8
    /\ handed[7].object = "vehicle"
    /\ handed[7].uniform = "uModelViewProjection"
    /\ handed[7].value # RowMajorOf(handed[7])

\* main has returned.
Returned == pc \in {"returned0", "returned1"}

\* C21 as stated: on every path that leaves main, every GL object that was
\* created has been deleted exactly once, and no object was deleted that
\* was never created.
C21_Original ==
    Returned => \A o \in GlObjects : deletes[o] = IF handles[o] THEN 1 ELSE 0

\* Main was left by an exception after the terrain's vertex array was
\* created; the vertex array was not deleted.
C21_Witness ==
    /\ pc = "returned1"
    /\ handles[[part |-> "terrain", n |-> 0, kind |-> "vao"]]
    /\ deletes[[part |-> "terrain", n |-> 0, kind |-> "vao"]] = 0

\* How often f was called.
CallsOf(f) == Cardinality({ k \in DOMAIN glfwCalls : glfwCalls[k] = f })

\* C22: when main has returned after glfwInit succeeded, by return or by
\* exception, glfwTerminate was called exactly once; a window that was
\* created was destroyed exactly once and before glfwTerminate; if
\* glfwInit failed neither was called.
C22_GlfwCleanup ==
    Returned
        => /\ glfw.init /\ glfw.window => glfwCalls = << "glfwDestroyWindow", "glfwTerminate" >>
           /\ glfw.init /\ ~glfw.window => glfwCalls = << "glfwTerminate" >>
           /\ ~glfw.init => glfwCalls = << >>
           /\ CallsOf("glfwTerminate") = IF glfw.init THEN 1 ELSE 0
           /\ CallsOf("glfwDestroyWindow") = IF glfw.window THEN 1 ELSE 0

\* An exception left main after the window was created: the window was
\* destroyed, then GLFW was terminated.
C22_Witness ==
    /\ pc = "returned1"
    /\ glfw.window
    /\ glfwCalls = << "glfwDestroyWindow", "glfwTerminate" >>

---------------------------------------------------------------------------
(* The input callbacks.                                                    *)

\* C23 as stated: whatever key code and action the key callback is given,
\* the subscript it uses on keys is at least 0 and less than 512.
C23_Original ==
    \A n \in 1..Len(indexed) : 0 <= indexed[n] /\ indexed[n] < KeysSize

\* The callback has been given the unknown key and used it as a subscript.
C23_Witness == indexed = << GLFW_KEY_UNKNOWN >>

\* C25: after any sequence of key, mouse button and cursor events the
\* camera's pitch lies between -(pi/2 - 0.1) and pi/2 - 0.1.
C25_PitchClamped == -maxPitch <= look.pitch /\ look.pitch <= maxPitch

\* A cursor event has taken the pitch to the lower limit.
C25_Witness ==
    /\ input.mouseActive
    /\ ~input.firstMouse
    /\ look.pitch = -maxPitch

\* C26: the first cursor event after mouse look is turned on leaves yaw
\* and pitch as they are and stores its position; turning mouse look on
\* always makes the next cursor event a first one, and a cursor event
\* while mouse look is off changes neither angle.
C26_FirstEventAnchors ==
    [][ /\ (~input.mouseActive /\ input'.mouseActive) => input'.firstMouse
        /\ \A aPos \in CursorPositions :
              CursorPosEvent(aPos[1], aPos[2]) =>
                  IF ~input.mouseActive THEN look' = look /\ input' = input
                  ELSE input.firstMouse =>
                           /\ look' = look
                           /\ input'.lastMouseX = aPos[1]
                           /\ input'.lastMouseY = aPos[2] ]_vars

\* Mouse look was turned on and the first cursor event arrived away from the
\* stored position: the angles are the initial ones.
C26_Witness ==
    /\ input.mouseActive
    /\ ~input.firstMouse
    /\ input.lastMouseX = 500
    /\ input.lastMouseY = 1000
    /\ look = InitialLook

\* C27: the cursor is disabled exactly while mouse look is on and normal
\* exactly while it is off; a press of the right button flips mouse look,
\* a release of it and every event of another button leave it alone.
C27_CursorMode ==
    /\ [](window.cursor = (IF input.mouseActive THEN "GLFW_CURSOR_DISABLED"
                           ELSE "GLFW_CURSOR_NORMAL"))
    /\ [][ \A aButton \in MouseButtons, aAction \in KeyActions :
              MouseButtonEvent(aButton, aAction) =>
                  input'.mouseActive =
                      IF aButton = GLFW_MOUSE_BUTTON_RIGHT /\ aAction = GLFW_PRESS
                      THEN ~input.mouseActive
                      ELSE input.mouseActive ]_vars

\* Mouse look is on and the cursor disabled.
C27_Witness == input.mouseActive /\ window.cursor = "GLFW_CURSOR_DISABLED"

\* C28: keys[k] is set exactly when the latest press or release of k was a
\* press; Escape is never recorded, its press sets the close flag, the flag
\* stays set, and with the flag set the loop's condition ends the loop
\* without another pass through its body.
C28_KeysAndClose ==
    /\ [](/\ \A k \in KeyIndices \ {GLFW_KEY_ESCAPE} :
                input.keys[k] <=> (recent[k] = << GLFW_PRESS >>)
          /\ ~input.keys[GLFW_KEY_ESCAPE]
          /\ (recent[GLFW_KEY_ESCAPE] = << GLFW_PRESS >>) => window.shouldClose)
    /\ [][ /\ KeyEvent(GLFW_KEY_ESCAPE, GLFW_PRESS) =>
                  window'.shouldClose /\ input' = input
           /\ window.shouldClose => window'.shouldClose
           /\ (window.shouldClose /\ loop \in {"condition", "exited"}) =>
                  loop' = "exited" ]_vars

\* W is held, Escape was pressed, and the loop has ended.
C28_Witness ==
    /\ input.keys[GLFW_KEY_W]
    /\ recent[GLFW_KEY_ESCAPE] = << GLFW_PRESS >>
    /\ loop = "exited"

---------------------------------------------------------------------------
(* The pass through the loop's body.                                       *)

\* C24 as stated: the width and the height the aspect ratio is computed
\* from are both non-zero in every pass, a pass that found the window
\* minimized and waited for it included.
C24_Original ==
    \A n \in 1..Len(aspectArgs) : aspectArgs[n].width # 0 /\ aspectArgs[n].height # 0

\* The pass waited for the window to come back and divided 0 by 0.
C24_Witness ==
    /\ aspectArgs = << [width |-> 0, height |-> 0] >>
    /\ fbsize.nwidth # 0
    /\ fbsize.nheight # 0

\* C29: in every pass the terrain is drawn under uUseTexture = 1 exactly when
\* there is a texture and under uUseMaterialColor = 0, and every launchpad
\* mesh and the vehicle under uUseTexture = 0 and uUseMaterialColor = 1.
C29_Switches ==
    \A n \in 1..Len(drawn) :
        IF drawn[n].object = "terrain"
        THEN /\ drawn[n].uUseTexture = (IF Textured THEN 1 ELSE 0)
             /\ drawn[n].uUseMaterialColor = 0
        ELSE /\ drawn[n].uUseTexture = 0
             /\ drawn[n].uUseMaterialColor = 1

\* The second pass of a textured scene with a vehicle and no launchpad has
\* drawn both: the vehicle block of the first pass left uUseTexture at 0.
C29_Witness ==
    /\ passes = 1
    /\ Textured
    /\ assets.vehicle
    /\ assets.meshes = 0
    /\ Len(drawn) = 2

---------------------------------------------------------------------------
(* The vehicle mesh.                                                       *)

\* C30: after any sequence of createBox, createCylinder and createSphere
\* calls with segments >= 1, every index was, when pushed, below the number
\* of vertices pushed so far, and names a vertex of the shape that pushed
\* it; the vertex array's length is a multiple of 8 and the number of
\* indices a multiple of 3.
C30_MeshIndices ==
    /\ Len(vehicleVertices) % VertexFloats = 0
    /\ Len(vehicleIndices) % 3 = 0
    /\ \A n \in 1..Len(vehicleIndices) :
           LET pushed == vehicleIndices[n]
           IN  /\ 0 <= pushed.index
               /\ pushed.index < pushed.emitted
               /\ pushed.emitted <= Len(vehicleVertices) \div VertexFloats
               /\ vehicleVertices[pushed.index * VertexFloats + 1] = pushed.shape

\* A sphere follows a box and a cylinder of two segments; the last of its
\* indices but one names its last vertex.
C30_Witness ==
    /\ shapes = 3
    /\ Len(vehicleVertices) = (24 + 18 + 9) * VertexFloats
    /\ vehicleIndices[Len(vehicleIndices) - 1].index = 24 + 18 + 8
    /\ vehicleVertices[1] = 1
    /\ vehicleVertices[24 * VertexFloats + 1] = 2

====
